---- MODULE Spec2Model ----
(***************************************************************************)
(* calbar: the sync round and the loop of Syncer.Run (internal/sync), the  *)
(* filter engine (internal/filter), the staleness merge, the hidden        *)
(* registry and the notification scheduler (cmd/calbar/main.go), what      *)
(* updateUI hands to the popup and the tray, the ICS adapter with its      *)
(* recurrence expansion (internal/calendar) and the time column of the     *)
(* menu's event line (internal/ui/menu).                                   *)
(*                                                                         *)
(* Time is counted in units of 30 seconds (the notification ticker's       *)
(* period), so one minute is 2 units; the ICS adapter alone counts hours.  *)
(* Strings that the filter inspects are sequences of one-character         *)
(* strings.                                                                *)
(***************************************************************************)
EXTENDS Integers, Sequences, FiniteSets, TLC

VARIABLES
    now,             \* the wall clock (time.Now), in 30 s units
    events,          \* App.events
    hiddenEntries,   \* App.hiddenEntries
    lastSync,        \* App.lastSync (-1: zero time)
    lastSyncErr,     \* App.lastSyncErr
    notifiedEvents,  \* App.notifiedEvents: key -> time of the ticket
    notified,        \* Notifier.notified: event uid -> time of the last Send
    sentLog,         \* every call of Notifier.Send made so far, with its outcome
    runPc,           \* position of Syncer.Run
    fetched,         \* this round's outcome of each source's Fetch
    ret,             \* what Sync returned to Run, until onSync has consumed it
    taskPc,          \* position of each fetch goroutine of Sync
    results,         \* the results channel of Sync
    closed,          \* whether the results channel is closed
    acc,             \* allEvents, failedSources, firstErr of Sync's collector
    tickC,           \* ticker.C of Run: the fire times of the ticks it holds
    ctxDone,         \* whether Run's context is cancelled
    filterCfg,       \* the configuration a filter was built from
    filterIn,        \* the events handed to Filter.Apply
    filterOut,       \* the events Filter.Apply returned
    ui,              \* what the UI shows: Popup.loading, Popup.stale, Tray.state
    shown,           \* the (source, uid) pairs shown so far with stale = false
    icsIn,           \* the feed an ICS fetch reads, with its clock and its end
    icsOut,          \* the events that fetch returned
    line,            \* the event line the menu formatted last, and the instant
    linkIn,          \* the location, description and url handed to DetectFromEvent
    linkOut,         \* the link DetectFromEvent returned
    durIn,           \* the string handed to parseDuration
    durOut,          \* the duration, in minutes, and the error parseDuration returned
    srcIn,           \* the SourceConfig that is validated
    srcOut,          \* the error Validate returned
    viewIn,          \* the events, the clock and the backend of a view that is built
    viewOut,         \* the timed and the all-day section of that view
    notificationIDs, \* App.notificationIDs: notification id -> meeting URL
    lastID,          \* the id the notification service gave out last
    notif,           \* the notification sendNotification built last, with its event
    opened,          \* the last "join" action that came in, and the URL it opened
    mu,              \* App.mu: the goroutine holding the write lock, those holding read locks
    gpc,             \* position of each goroutine of the application
    local,           \* the local variables of each goroutine
    menu,            \* the events and hidden events last handed to the UI
    access           \* the fields the last step read and wrote, and the lock it held

vars == <<now, events, hiddenEntries, lastSync, lastSyncErr, notifiedEvents,
          notified, sentLog, runPc, fetched, ret, taskPc, results, closed, acc,
          tickC, ctxDone, filterCfg, filterIn, filterOut, ui, shown,
          icsIn, icsOut, line, linkIn, linkOut, durIn, durOut,
          srcIn, srcOut, viewIn, viewOut, notificationIDs, lastID, notif, opened,
          mu, gpc, local, menu, access>>

appVars == <<events, hiddenEntries, lastSync, lastSyncErr>>
notifyVars == <<notifiedEvents, notified, sentLog>>
uiVars == <<ui, shown>>
icsVars == <<icsIn, icsOut>>
runVars == <<tickC, ctxDone>>
syncVars == <<runPc, fetched, ret, taskPc, results, closed, acc, runVars>>
filterVars == <<filterCfg, filterIn, filterOut>>
linkVars == <<linkIn, linkOut>>
durVars == <<durIn, durOut>>
srcVars == <<srcIn, srcOut>>
viewVars == <<viewIn, viewOut>>
joinVars == <<notificationIDs, lastID, notif, opened>>
raceVars == <<mu, gpc, local, menu, access>>
\* the state of the functions that are checked on their own
pureVars == <<linkVars, durVars, srcVars, viewVars>>
\* the state that only the goroutine-level specifications change
goVars == <<joinVars, raceVars>>
auxVars == <<pureVars, goVars>>
\* the state of the application, its UI and its adapters
coreVars == <<filterVars, icsVars, line, uiVars, now, appVars, notifyVars, syncVars>>

----------------------------------------------------------------------------
(* Bounds and configuration *)

MaxTime == 3

\* the longest rule list of a filter and the longest list handed to Apply
MaxRules == 2
MaxInput == 2

Minute == 2
Hour == 60 * Minute
TicketTTL == 24 * Hour

\* cfg.UI.EventEndGrace
EventEndGrace == 1

\* cfg.Notifications.Before: 1m30s and 30s
Before == <<3, 1>>

NoErr == "nil"
NoTime == -1

----------------------------------------------------------------------------
(* Strings as sequences of characters *)

LowerChar(c) ==
    CASE c = "X" -> "x"
      [] c = "S" -> "s"
      [] OTHER -> c

ToLower(s) == [i \in 1..Len(s) |-> LowerChar(s[i])]

HasPrefix(s, p) == Len(p) <= Len(s) /\ SubSeq(s, 1, Len(p)) = p

HasSuffix(s, p) == Len(p) <= Len(s) /\ SubSeq(s, Len(s) - Len(p) + 1, Len(s)) = p

Contains(s, p) ==
    \E i \in 0..(Len(s) - Len(p)) : SubSeq(s, i + 1, i + Len(p)) = p

----------------------------------------------------------------------------
(* Filter engine (internal/filter) *)

compileRule(r) ==
    [field |-> r.field,
     matchType |-> r.matchType,
     pattern |-> IF r.caseInsensitive THEN ToLower(r.pattern) ELSE r.pattern,
     caseInsensitive |-> r.caseInsensitive]

New(cfg) ==
    [mode |-> IF cfg.mode = "" THEN "or" ELSE cfg.mode,
     includeRules |-> [i \in 1..Len(SelectSeq(cfg.rules, LAMBDA r : ~r.exclude)) |->
                          compileRule(SelectSeq(cfg.rules, LAMBDA r : ~r.exclude)[i])],
     excludeRules |-> [i \in 1..Len(SelectSeq(cfg.rules, LAMBDA r : r.exclude)) |->
                          compileRule(SelectSeq(cfg.rules, LAMBDA r : r.exclude)[i])]]

getFieldValue(r, event) ==
    CASE r.field \in {"title", "summary"} -> event.summary
      [] r.field \in {"source", "calendar"} -> <<event.source>>
      [] OTHER -> <<>>

matches(r, event) ==
    LET raw == getFieldValue(r, event)
        value == IF r.caseInsensitive THEN ToLower(raw) ELSE raw
    IN CASE r.matchType = "exact" -> value = r.pattern
         [] r.matchType = "prefix" -> HasPrefix(value, r.pattern)
         [] r.matchType = "suffix" -> HasSuffix(value, r.pattern)
         [] OTHER -> Contains(value, r.pattern)

matchesExclude(f, event) ==
    \E i \in 1..Len(f.excludeRules) : matches(f.excludeRules[i], event)

\* mutant: every include rule must match, whatever the mode
matchesIncludeAll(f, event) ==
    \A i \in 1..Len(f.includeRules) : matches(f.includeRules[i], event)

matchesInclude(f, event) ==
    IF f.mode = "and"
    THEN \A i \in 1..Len(f.includeRules) : matches(f.includeRules[i], event)
    ELSE \E i \in 1..Len(f.includeRules) : matches(f.includeRules[i], event)

\* mutant: an event that the include rules accept is kept although an
\* exclude rule matches it
ApplyIncludeWins(f, evs) ==
    IF Len(f.includeRules) = 0 /\ Len(f.excludeRules) = 0
    THEN evs
    ELSE SelectSeq(evs, LAMBDA e :
             \/ (Len(f.includeRules) > 0 /\ matchesInclude(f, e))
             \/ (Len(f.includeRules) = 0 /\ ~matchesExclude(f, e)))

Apply(f, evs) ==
    IF Len(f.includeRules) = 0 /\ Len(f.excludeRules) = 0
    THEN evs
    ELSE SelectSeq(evs, LAMBDA e :
             /\ ~matchesExclude(f, e)
             /\ (Len(f.includeRules) = 0 \/ matchesInclude(f, e)))

(* A filter built from a configuration and applied to a list of events *)

FilterModes == {"", "or", "and"}

FilterRules ==
    {[field |-> r.field, matchType |-> r.matchType, pattern |-> r.pattern,
      caseInsensitive |-> r.caseInsensitive, exclude |-> x] :
        r \in {[field |-> "title", matchType |-> "contains", pattern |-> <<"s">>,
                caseInsensitive |-> FALSE],
               [field |-> "title", matchType |-> "suffix", pattern |-> <<"S">>,
                caseInsensitive |-> TRUE],
               [field |-> "source", matchType |-> "exact", pattern |-> <<"A">>,
                caseInsensitive |-> FALSE]},
        x \in BOOLEAN}

FilterConfigs ==
    {[mode |-> m, rules |-> rs] :
        m \in FilterModes,
        rs \in UNION {[1..n -> FilterRules] : n \in 0..MaxRules}}

FilterEvents ==
    {[uid |-> "e", source |-> src, summary |-> sm, start |-> 0, end |-> 1, stale |-> FALSE] :
        src \in {"A", "C"}, sm \in {<<"s", "y">>, <<"S">>}}

FilterInputs == UNION {[1..n -> FilterEvents] : n \in 1..MaxInput}

NoFilter == [mode |-> "", rules |-> <<>>]

\* createSources builds the filter of a source from its configuration;
\* nothing has been handed to the new filter
NewFilter ==
    /\ filterCfg = NoFilter
    /\ filterCfg' \in FilterConfigs
    /\ filterIn' = <<>>
    /\ filterOut' = <<>>
    /\ UNCHANGED <<icsVars, line, auxVars, uiVars, now, appVars, notifyVars, syncVars>>

\* a fetch goroutine hands the fetched events to the filter
ApplyFilter ==
    /\ \E in \in FilterInputs :
          /\ filterIn' = in
          /\ filterOut' = Apply(New(filterCfg), in)
    /\ UNCHANGED <<filterCfg, icsVars, line, auxVars, uiVars, now, appVars, notifyVars, syncVars>>

----------------------------------------------------------------------------
(* Source adapters: how each kind tags the events it parses *)

\* no link: the empty string where a URL is expected
NoLink == [svc |-> "", at |-> ""]

\* a date-only DTSTART makes the event all-day; without DTEND it lasts an hour
ICSEvent(name, uid, summary, start, end, allDay) ==
    [uid |-> uid, source |-> name, summary |-> summary,
     start |-> start, end |-> end, allDay |-> allDay, stale |-> FALSE,
     location |-> <<>>, description |-> <<>>, url |-> NoLink]

CalDAVEvent(name, calName, uid, summary, start, end) ==
    [uid |-> uid, source |-> name \o "/" \o calName, summary |-> summary,
     start |-> start, end |-> end, allDay |-> FALSE, stale |-> FALSE,
     location |-> <<>>, description |-> <<>>, url |-> NoLink]

\* createSources: the configured sources, each with its compiled filter
sources ==
    << [name |-> "A", kind |-> "ics",
        filter |-> New([mode |-> "",
                        rules |-> << [field |-> "title", matchType |-> "contains",
                                      pattern |-> <<"X">>, caseInsensitive |-> TRUE,
                                      exclude |-> TRUE] >>])],
       [name |-> "B", kind |-> "caldav",
        filter |-> New([mode |-> "or", rules |-> <<>>])] >>

SourceIds == 1..Len(sources)

\* What the remote end of each source may serve in a round
Upstream(i) ==
    IF sources[i].kind = "ics"
    THEN { << ICSEvent(sources[i].name, "ax", <<"x">>, 2, 3, FALSE) >>,
           << ICSEvent(sources[i].name, "a1", <<"s", "y">>, 3, 6, FALSE),
              ICSEvent(sources[i].name, "ax", <<"x">>, 2, 3, FALSE) >>,
           << ICSEvent(sources[i].name, "a1", <<"s", "y">>, 4, 4 + Hour, TRUE) >> }
    ELSE { <<>>,
           << CalDAVEvent(sources[i].name, "work", "b1", <<"b">>, 0, 1),
              [CalDAVEvent(sources[i].name, "work", "a1", <<"s", "y">>, 3, 6)
                  EXCEPT !.location = << [svc |-> "zoom", at |-> "location"] >>] >> }

FetchErr(i) == "err" \o sources[i].name

\* Source.Fetch: events or an error
Fetch(i) ==
    {[events |-> f, err |-> NoErr] : f \in Upstream(i)}
        \cup {[events |-> <<>>, err |-> FetchErr(i)]}

NotFetched == [events |-> <<>>, err |-> "pending"]

UIDs == {"a1", "ax", "b1", "gone"}

----------------------------------------------------------------------------
(* calendar.Merge *)

RemoveAt(s, i) == SubSeq(s, 1, i - 1) \o SubSeq(s, i + 1, Len(s))

RECURSIVE SortedBy(_)
\* every order sort.Slice may leave: it sorts by start and is not stable
SortedBy(all) ==
    IF Len(all) = 0
    THEN {<<>>}
    ELSE UNION { {<<all[i]>> \o rest : rest \in SortedBy(RemoveAt(all, i))} :
                 i \in {j \in 1..Len(all) :
                          \A k \in 1..Len(all) : ~(all[k].start < all[j].start)} }

\* mutant: the event sets are appended and not sorted
MergeAppendOnly(all) == {all}

Merge(all) == SortedBy(all)

----------------------------------------------------------------------------
(* Syncer.Sync (internal/sync/sync.go) *)

\* what one fetch goroutine puts on the results channel
TaskResult(i, out) ==
    IF out.err # NoErr
    THEN [name |-> sources[i].name, events |-> <<>>, err |-> out.err]
    ELSE [name |-> sources[i].name,
          events |-> Apply(sources[i].filter, out.events), err |-> NoErr]

\* mutant: the channel holds one result less than there are sources
ResultsCapShort == Len(sources) - 1

\* capacity of the results channel
ResultsCap == Len(sources)

EmptyAcc == [allEvents |-> <<>>, failedSources |-> <<>>, firstErr |-> NoErr]

\* mutant: the collector records the failed name and forgets the error
CollectForgetsErr(a, r) ==
    IF r.err # NoErr
    THEN [allEvents |-> a.allEvents,
          failedSources |-> Append(a.failedSources, r.name),
          firstErr |-> a.firstErr]
    ELSE [a EXCEPT !.allEvents = @ \o r.events]

\* one iteration of the collector loop
Collect(a, r) ==
    IF r.err # NoErr
    THEN [allEvents |-> a.allEvents,
          failedSources |-> Append(a.failedSources, r.name),
          firstErr |-> IF a.firstErr = NoErr THEN r.err ELSE a.firstErr]
    ELSE [a EXCEPT !.allEvents = @ \o r.events]

RECURSIVE CollectAll(_, _)
CollectAll(a, rs) ==
    IF Len(rs) = 0 THEN a ELSE CollectAll(Collect(a, Head(rs)), Tail(rs))

\* mutant: any failed source makes the round an error
SyncReturnAnyErr(merged, a) ==
    IF a.firstErr # NoErr
    THEN [events |-> <<>>, failedSources |-> a.failedSources, err |-> a.firstErr]
    ELSE [events |-> merged, failedSources |-> a.failedSources, err |-> NoErr]

\* the return statement of Sync
SyncReturn(merged, a) ==
    IF Len(merged) = 0 /\ a.firstErr # NoErr
    THEN [events |-> <<>>, failedSources |-> a.failedSources, err |-> a.firstErr]
    ELSE [events |-> merged, failedSources |-> a.failedSources, err |-> NoErr]

NoRet == [events |-> <<>>, failedSources |-> <<>>, err |-> NoErr]

(* The steps of one call of Sync, goroutine by goroutine *)

\* Run calls Sync, at its start or on a tick received in its select: the
\* channel is made and one goroutine per source is started
SyncStart ==
    /\ \/ runPc = "start" /\ tickC' = tickC
       \/ runPc \in {"wait", "onTick"} /\ Len(tickC) > 0 /\ tickC' = Tail(tickC)
    /\ runPc' = "collect"
    /\ taskPc' = [i \in SourceIds |-> "fetch"]
    /\ fetched' = [i \in SourceIds |-> NotFetched]
    /\ results' = <<>>
    /\ closed' = FALSE
    /\ acc' = EmptyAcc
    /\ UNCHANGED <<filterVars, icsVars, line, auxVars, uiVars, now, events, hiddenEntries, lastSync, lastSyncErr, notifyVars,
                   ret, ctxDone>>

\* a goroutine's swf.source.Fetch returns
TaskFetch(i) ==
    /\ taskPc[i] = "fetch"
    /\ \E out \in Fetch(i) : fetched' = [fetched EXCEPT ![i] = out]
    /\ taskPc' = [taskPc EXCEPT ![i] = "send"]
    /\ UNCHANGED <<filterVars, icsVars, line, auxVars, uiVars, now, events, hiddenEntries, lastSync, lastSyncErr, notifyVars,
                   runPc, ret, results, closed, acc, runVars>>

\* a goroutine sends its result; the send blocks while the channel is full
TaskSend(i) ==
    /\ taskPc[i] = "send"
    /\ Len(results) < ResultsCap
    /\ results' = Append(results, TaskResult(i, fetched[i]))
    /\ taskPc' = [taskPc EXCEPT ![i] = "done"]
    /\ UNCHANGED <<filterVars, icsVars, line, auxVars, uiVars, now, events, hiddenEntries, lastSync, lastSyncErr, notifyVars,
                   runPc, fetched, ret, closed, acc, runVars>>

\* wg.Wait() returns and the channel is closed
CloseResults ==
    /\ runPc = "collect"
    /\ ~closed
    /\ \A i \in SourceIds : taskPc[i] = "done"
    /\ closed' = TRUE
    /\ UNCHANGED <<filterVars, icsVars, line, auxVars, uiVars, now, events, hiddenEntries, lastSync, lastSyncErr, notifyVars,
                   runPc, fetched, ret, taskPc, results, acc, runVars>>

\* the collector receives one result
CollectNext ==
    /\ runPc = "collect"
    /\ Len(results) > 0
    /\ acc' = Collect(acc, Head(results))
    /\ results' = Tail(results)
    /\ UNCHANGED <<filterVars, icsVars, line, auxVars, uiVars, now, events, hiddenEntries, lastSync, lastSyncErr, notifyVars,
                   runPc, fetched, ret, taskPc, closed, runVars>>

\* mutant: Sync returns as soon as the channel is empty, without waiting for
\* the goroutines
SyncFinishEarly ==
    /\ runPc = "collect"
    /\ Len(results) = 0
    /\ \E merged \in Merge(acc.allEvents) : ret' = SyncReturn(merged, acc)
    /\ runPc' = "callback"
    /\ UNCHANGED <<filterVars, icsVars, line, auxVars, uiVars, now, events, hiddenEntries, lastSync, lastSyncErr, notifyVars,
                   fetched, taskPc, results, closed, acc, runVars>>

\* the range loop ends on the closed, drained channel; Sync merges and returns
SyncFinish ==
    /\ runPc = "collect"
    /\ Len(results) = 0
    /\ closed
    /\ \E merged \in Merge(acc.allEvents) : ret' = SyncReturn(merged, acc)
    /\ runPc' = "callback"
    /\ taskPc' = [i \in SourceIds |-> "idle"]
    /\ UNCHANGED <<filterVars, icsVars, line, auxVars, uiVars, now, events, hiddenEntries, lastSync, lastSyncErr, notifyVars,
                   fetched, results, closed, acc, runVars>>

(* The same call as one step: everything Sync can return *)

Orders == {o \in [SourceIds -> SourceIds] : \A i, j \in SourceIds : o[i] = o[j] => i = j}

Outcomes == {outs \in [SourceIds -> UNION {Fetch(i) : i \in SourceIds}] :
                \A i \in SourceIds : outs[i] \in Fetch(i)}

Sync ==
    UNION { { SyncReturn(merged, CollectAll(EmptyAcc,
                  [k \in SourceIds |-> TaskResult(o[k], outs[o[k]])])) :
              merged \in Merge(CollectAll(EmptyAcc,
                  [k \in SourceIds |-> TaskResult(o[k], outs[o[k]])]).allEvents) } :
            outs \in Outcomes, o \in Orders }

----------------------------------------------------------------------------
(* The uid map of the hidden registry and the two lists the UI is given *)

\* eventByUID of gcHiddenEntries and hiddenEvents: the last event with the uid wins
HasUID(evs, uid) == \E k \in 1..Len(evs) : evs[k].uid = uid

eventByUID(evs, uid) ==
    evs[CHOOSE k \in 1..Len(evs) :
            /\ evs[k].uid = uid
            /\ \A j \in (k + 1)..Len(evs) : evs[j].uid # uid]

\* mutant: the garbage collection keeps the entries of ended events
gcKeepsEnded(hidden, evs, t) ==
    SelectSeq(hidden, LAMBDA h : HasUID(evs, h.uid))

gcHiddenEntries(hidden, evs, t) ==
    SelectSeq(hidden, LAMBDA h :
        ~(\/ ~HasUID(evs, h.uid)
          \/ eventByUID(evs, h.uid).end + EventEndGrace < t))

alreadyHidden(hidden, uid) == \E k \in 1..Len(hidden) : hidden[k].uid = uid

\* mutant: the hidden events stay in the list
visibleEventsAll(evs, hidden) == evs

visibleEvents(evs, hidden) ==
    IF Len(hidden) = 0
    THEN evs
    ELSE SelectSeq(evs, LAMBDA e : ~alreadyHidden(hidden, e.uid))

\* hiddenEvents: for each entry, newest first, the event the uid map holds
hiddenEvents(evs, hidden) ==
    LET backward == [k \in 1..Len(hidden) |-> hidden[Len(hidden) + 1 - k]]
        present == SelectSeq(backward, LAMBDA h : HasUID(evs, h.uid))
    IN [k \in 1..Len(present) |-> eventByUID(evs, present[k].uid)]

----------------------------------------------------------------------------
(* App.updateUI, which every handler ends with through scheduleUIUpdate *)

\* sync.interval, at its default of five minutes
Interval == 5 * Minute

\* the window in which the tray shows an event as imminent
ImminentWithin == 15 * Minute

\* the events the user sees and the events of the hidden list
PublishedEvents(evs, hidden) ==
    [events |-> visibleEvents(evs, hidden), hidden |-> hiddenEvents(evs, hidden)]

\* isStale of updateUI; time.Since of the zero time exceeds every interval
isStale(ls, err, t) == err # NoErr \/ ls = NoTime \/ t - ls > 2 * Interval

updateTrayState(vis, t) ==
    IF \E k \in 1..Len(vis) :
          /\ ~(vis[k].end + EventEndGrace < t)
          /\ vis[k].start - t > 0
          /\ vis[k].start - t <= ImminentWithin
    THEN "imminent"
    ELSE "normal"

\* the state updateUI leaves the popup and the tray in
uiState(evs, hidden, ls, err, t) ==
    [loading |-> FALSE,
     stale |-> isStale(ls, err, t),
     tray |-> IF isStale(ls, err, t)
              THEN "stale"
              ELSE updateTrayState(visibleEvents(evs, hidden), t)]

\* the fresh events of the two lists, by source and uid
freshShown(evs, hidden) ==
    LET v == PublishedEvents(evs, hidden)
    IN {<<v.events[k].source, v.events[k].uid>> :
            k \in {x \in 1..Len(v.events) : ~v.events[x].stale}}
       \cup {<<v.hidden[k].source, v.hidden[k].uid>> :
            k \in {x \in 1..Len(v.hidden) : ~v.hidden[x].stale}}

\* updateUI on the state the handler leaves
updateUI ==
    /\ ui' = uiState(events', hiddenEntries', lastSync', lastSyncErr', now')
    /\ shown' = shown \cup freshShown(events', hiddenEntries')

\* a handler with the scheduleUIUpdate it ends with, and the same handler in
\* a specification that leaves what the UI shows out of the picture
WithUI(handler) == handler /\ updateUI /\ UNCHANGED goVars

NoUI(handler) == handler /\ UNCHANGED <<uiVars, goVars>>

----------------------------------------------------------------------------
(* Staleness tracker: App.onSyncComplete *)

\* mutant: the events of failed sources are kept without the stale mark
markStaleUnmarked(evs, failedSources) ==
    SelectSeq(evs, LAMBDA e : \E k \in 1..Len(failedSources) : failedSources[k] = e.source)

\* mutant: the events of every source are kept and marked stale
markStaleKeepsAll(evs, failedSources) == [k \in 1..Len(evs) |-> [evs[k] EXCEPT !.stale = TRUE]]

markStale(evs, failedSources) ==
    LET kept == SelectSeq(evs, LAMBDA e : \E k \in 1..Len(failedSources) :
                                             failedSources[k] = e.source)
    IN [k \in 1..Len(kept) |-> [kept[k] EXCEPT !.stale = TRUE]]

markFresh(evs) == [k \in 1..Len(evs) |-> [evs[k] EXCEPT !.stale = FALSE]]

\* mutant: a fatal result empties the snapshot
onSyncCompleteDropsOnError(r) ==
    /\ IF r.err # NoErr
       THEN /\ lastSyncErr' = r.err
            /\ events' = <<>>
       ELSE /\ events' \in Merge(markStale(events, r.failedSources) \o markFresh(r.events))
            /\ lastSyncErr' = NoErr
    /\ lastSync' = now
    /\ UNCHANGED <<filterVars, icsVars, line, pureVars, now, hiddenEntries, notifyVars>>

\* onSyncComplete(events, failedSources, err), with r the three arguments
onSyncComplete(r) ==
    /\ IF r.err # NoErr
       THEN /\ lastSyncErr' = r.err
            /\ events' = events
       ELSE /\ events' \in Merge(markStale(events, r.failedSources) \o markFresh(r.events))
            /\ lastSyncErr' = NoErr
    /\ lastSync' = now
    /\ UNCHANGED <<filterVars, icsVars, line, pureVars, now, hiddenEntries, notifyVars>>

\* Run hands the result of Sync to onSync and goes to wait for the ticker
RunCallback ==
    /\ runPc = "callback"
    /\ onSyncComplete(ret)
    /\ runPc' = "wait"
    /\ ret' = NoRet
    /\ UNCHANGED <<fetched, taskPc, results, closed, acc, runVars>>

\* capacity of the channel of a time.Ticker
TickerCap == 1

\* the ticker of Run exists from the end of the first onSync until Run returns
tickerRunning == lastSync # NoTime /\ runPc # "returned"

\* Run reaches its select (position "wait") and finds no case ready: it
\* blocks, and the first case to become ready is the one it will take.
\* Run evaluates the select as soon as onSync has returned: a tick or a
\* cancellation finds Run either before the end of onSync or blocked
RunBlock ==
    /\ runPc = "wait"
    /\ tickC = <<>>
    /\ ~ctxDone
    /\ runPc' = "blocked"
    /\ UNCHANGED <<filterVars, icsVars, line, auxVars, uiVars, now, appVars, notifyVars,
                   fetched, ret, taskPc, results, closed, acc, runVars>>

\* the ticker fires: the tick, which carries its fire time, is put on
\* ticker.C if there is room and is dropped otherwise; it wakes a blocked Run
Tick ==
    /\ tickerRunning
    /\ runPc # "wait"
    /\ tickC' = IF Len(tickC) < TickerCap THEN Append(tickC, now) ELSE tickC
    /\ runPc' = IF runPc = "blocked" THEN "onTick" ELSE runPc
    /\ UNCHANGED <<filterVars, icsVars, line, auxVars, uiVars, now, appVars, notifyVars,
                   fetched, ret, taskPc, results, closed, acc, ctxDone>>

\* the context of Run is cancelled; this wakes a blocked Run
Cancel ==
    /\ ~ctxDone
    /\ runPc \notin {"wait", "returned"}
    /\ ctxDone' = TRUE
    /\ runPc' = IF runPc = "blocked" THEN "onDone" ELSE runPc
    /\ UNCHANGED <<filterVars, icsVars, line, auxVars, uiVars, now, appVars, notifyVars,
                   fetched, ret, taskPc, results, closed, acc, tickC>>

\* the select of Run takes the ctx.Done() case; the ticker is stopped
RunReturn ==
    /\ runPc \in {"wait", "onDone"}
    /\ ctxDone
    /\ runPc' = "returned"
    /\ UNCHANGED <<filterVars, icsVars, line, auxVars, uiVars, now, appVars, notifyVars,
                   fetched, ret, taskPc, results, closed, acc, runVars>>

\* Run's Sync and onSync for one round, as one step
SyncRound ==
    /\ \E r \in Sync : onSyncComplete(r)
    /\ UNCHANGED syncVars

----------------------------------------------------------------------------
(* Hidden registry *)

\* the list hideEvent leaves: the append, unless the uid is there, then the
\* garbage collection
hideEntries(hidden, uid, evs, t) ==
    gcHiddenEntries(
        IF alreadyHidden(hidden, uid)
        THEN hidden
        ELSE Append(hidden, [uid |-> uid, hidden |-> t]),
        evs, t)

\* mutant: unhide leaves the entry of the uid in place
unhideKeepsEntry(hidden, uid, evs, t) == gcHiddenEntries(hidden, evs, t)

\* the list unhideEvent leaves: the removal, then the garbage collection
unhideEntries(hidden, uid, evs, t) ==
    gcHiddenEntries(SelectSeq(hidden, LAMBDA e : e.uid # uid), evs, t)

\* mutant: hide appends without looking for the uid
hideEventNoCheck(uid) ==
    /\ hiddenEntries' =
         gcHiddenEntries(Append(hiddenEntries, [uid |-> uid, hidden |-> now]), events, now)
    /\ UNCHANGED <<filterVars, icsVars, line, pureVars, now, events, lastSync, lastSyncErr, notifyVars, syncVars>>

hideEvent(uid) ==
    /\ hiddenEntries' = hideEntries(hiddenEntries, uid, events, now)
    /\ UNCHANGED <<filterVars, icsVars, line, pureVars, now, events, lastSync, lastSyncErr, notifyVars, syncVars>>

unhideEvent(uid) ==
    /\ hiddenEntries' = unhideEntries(hiddenEntries, uid, events, now)
    /\ UNCHANGED <<filterVars, icsVars, line, pureVars, now, events, lastSync, lastSyncErr, notifyVars, syncVars>>

----------------------------------------------------------------------------
(* Notification scheduler *)

\* the ticket key of checkNotifications: e.UID + "-" + before.String()
Key(uid, before) == uid \o "-" \o ToString(before)

Put(f, k, v) == [x \in DOMAIN f \cup {k} |-> IF x = k THEN v ELSE f[x]]

\* Notifier.Send: a second notification of the same event within a minute is
\* dropped without an error; otherwise the D-Bus call is made and may fail
Send(nt, uid, t, fails) ==
    IF uid # "" /\ uid \in DOMAIN nt /\ t - nt[uid] < Minute
    THEN [notified |-> nt, result |-> "suppressed"]
    ELSE [notified |-> IF uid # "" THEN Put(nt, uid, t) ELSE nt,
          result |-> IF fails THEN "error" ELSE "sent"]

\* App.sendNotification: the error of Send is logged and not returned
sendNotification(st, e, before, startsIn, t, fails) ==
    LET s == Send(st.notified, e.uid, t, fails)
    IN [st EXCEPT !.notified = s.notified,
                  !.log = Append(@, [uid |-> e.uid, before |-> before, at |-> t,
                                     startsIn |-> startsIn, result |-> s.result])]

\* whether the event loop of checkNotifications reaches the thresholds for e
considered(e, t) == ~(e.end + EventEndGrace < t) /\ ~(e.start - t < 0)

inWindow(startsIn, before) == startsIn <= before /\ startsIn > before - Minute

\* mutant: the threshold loop does not look for a ticket
checkThresholdNoTicket(st, e, before, t, failing) ==
    IF considered(e, t) /\ inWindow(e.start - t, before)
    THEN [sendNotification(st, e, before, e.start - t, t, Key(e.uid, before) \in failing)
             EXCEPT !.tickets = Put(@, Key(e.uid, before), t)]
    ELSE st

\* the body of the threshold loop
checkThreshold(st, e, before, t, failing) ==
    IF considered(e, t) /\ inWindow(e.start - t, before)
          /\ Key(e.uid, before) \notin DOMAIN st.tickets
    THEN [sendNotification(st, e, before, e.start - t, t, Key(e.uid, before) \in failing)
             EXCEPT !.tickets = Put(@, Key(e.uid, before), t)]
    ELSE st

RECURSIVE checkLoop(_, _, _, _, _)
\* the loops over the events and, for each, over cfg.Notifications.Before
checkLoop(st, evs, k, t, failing) ==
    IF k > Len(evs) * Len(Before)
    THEN st
    ELSE checkLoop(checkThreshold(st, evs[((k - 1) \div Len(Before)) + 1],
                                  Before[((k - 1) % Len(Before)) + 1], t, failing),
                   evs, k + 1, t, failing)

\* cleanup of the tickets older than 24 hours
pruneTickets(tickets, t) ==
    [k \in {x \in DOMAIN tickets : ~(tickets[x] < t - TicketTTL)} |-> tickets[k]]

\* the keys whose Send may be reached in a tick at t
dueKeys(evs, t) ==
    {Key(evs[k].uid, Before[b]) :
        k \in {x \in 1..Len(evs) : considered(evs[x], t)},
        b \in {y \in 1..Len(Before) : \E x \in 1..Len(evs) :
                  considered(evs[x], t) /\ inWindow(evs[x].start - t, Before[y])}}

\* checkNotifications from the snapshot of the visible events on
checkNotificationsOn(vis) ==
    /\ \E failing \in SUBSET dueKeys(vis, now) :
         LET st == checkLoop([tickets |-> notifiedEvents, notified |-> notified,
                              log |-> sentLog],
                             vis, 1, now, failing)
         IN /\ notifiedEvents' = pruneTickets(st.tickets, now)
            /\ notified' = st.notified
            /\ sentLog' = st.log
    /\ UNCHANGED <<filterVars, icsVars, line, pureVars, now, appVars, syncVars>>

checkNotifications == checkNotificationsOn(visibleEvents(events, hiddenEntries))

\* one tick of notificationLoop when no notifier is configured:
\* checkNotifications returns at once; the first tick comes 30 s after the start
checkNotificationsOff ==
    /\ now >= 1
    /\ UNCHANGED <<filterVars, icsVars, line, pureVars, now, appVars, notifyVars, syncVars>>

----------------------------------------------------------------------------
(* The clock *)

Advance ==
    /\ now < MaxTime
    /\ now' = now + 1
    /\ UNCHANGED <<filterVars, icsVars, line, auxVars, uiVars, appVars, notifyVars, syncVars>>

----------------------------------------------------------------------------
(* ICSSource.Fetch: parseICS and parseEvent, with recurrence expansion.
   This part counts time in hours; a day starts at every multiple of 24. *)

\* time.Hour, the duration of a component without DTEND
ICSHour == 1

ICSDay == 24 * ICSHour

\* most components in one feed
MaxFeed == 1

\* local hour, minute, second and nanosecond are all zero
AtMidnight(t) == t % ICSDay = 0

\* isEffectivelyAllDay(start, end)
isEffectivelyAllDay(start, end) == AtMidnight(start) /\ AtMidnight(end) /\ end > start

\* occ.Unix(), counted from the instant 0 of this part
Unix(t) == t * 3600

\* fmt.Sprintf("%s_%d", base.UID, occ.Unix())
occurrenceUID(uid, occ) == uid \o "_" \o ToString(Unix(occ))

\* mutant: only a date-only DTSTART makes an event all-day
allDayExplicitOnly(isAllDay, start, end) == isAllDay

\* AllDay of an event or of an occurrence
allDay(isAllDay, start, end) == isAllDay \/ isEffectivelyAllDay(start, end)

NoRule == [interval |-> 0, count |-> 0]

\* the occurrences of a rule with INTERVAL and COUNT, in order
RuleSet(dtstart, rule) == [k \in 1..rule.count |-> dtstart + (k - 1) * rule.interval]

\* rset.Between(after, before, inc)
Between(dtstart, rule, after, before, inc) ==
    SelectSeq(RuleSet(dtstart, rule),
              LAMBDA t : IF inc THEN after <= t /\ t <= before
                                ELSE after < t /\ t < before)

\* the duration parseEvent works with: DTEND - DTSTART, else one hour
durationOf(comp) ==
    IF comp.dtend # NoTime THEN comp.dtend - comp.dtstart ELSE ICSHour

\* mutant: the expansion leaves the boundary occurrences out
parseEventOpenRange(name, comp, t, end) ==
    IF comp.startBy = "none"
    THEN [err |-> TRUE, events |-> <<>>]
    ELSE LET isAllDay == comp.startBy = "parseDateOnly"
             duration == durationOf(comp)
             occurrences == Between(comp.dtstart, comp.rrule, t - duration, end, FALSE)
         IN IF comp.rrule = NoRule
            THEN [err |-> FALSE,
                  events |-> << ICSEvent(name, comp.uid, comp.summary, comp.dtstart,
                                         comp.dtstart + duration,
                                         allDay(isAllDay, comp.dtstart,
                                                comp.dtstart + duration)) >>]
            ELSE [err |-> FALSE,
                  events |-> [k \in 1..Len(occurrences) |->
                      ICSEvent(name, occurrenceUID(comp.uid, occurrences[k]),
                               comp.summary, occurrences[k], occurrences[k] + duration,
                               allDay(isAllDay, occurrences[k],
                                      occurrences[k] + duration))]]

\* parseEvent: the events of one VEVENT, or an error. startBy names the
\* parser that accepted DTSTART: prop.DateTime, parseDateTime or parseDateOnly
parseEvent(name, comp, t, end) ==
    IF comp.startBy = "none"
    THEN [err |-> TRUE, events |-> <<>>]
    ELSE LET isAllDay == comp.startBy = "parseDateOnly"
             duration == durationOf(comp)
             occurrences == Between(comp.dtstart, comp.rrule, t - duration, end, TRUE)
         IN IF comp.rrule = NoRule
            THEN [err |-> FALSE,
                  events |-> << ICSEvent(name, comp.uid, comp.summary, comp.dtstart,
                                         comp.dtstart + duration,
                                         allDay(isAllDay, comp.dtstart,
                                                comp.dtstart + duration)) >>]
            ELSE [err |-> FALSE,
                  events |-> [k \in 1..Len(occurrences) |->
                      ICSEvent(name, occurrenceUID(comp.uid, occurrences[k]),
                               comp.summary, occurrences[k], occurrences[k] + duration,
                               allDay(isAllDay, occurrences[k],
                                      occurrences[k] + duration))]]

\* mutant: an event that starts at the end of the range is kept
inRangeClosed(e, t, end) == e.end > t /\ e.start <= end

\* the test of parseICS: event.End.After(now) && event.Start.Before(s.end)
inRange(e, t, end) == e.end > t /\ e.start < end

\* what parseEvent gave for each component of the feed; an error gives nothing
parsedOf(name, feed, t, end) ==
    [k \in 1..Len(feed) |-> parseEvent(name, feed[k], t, end).events]

RECURSIVE Flatten(_)
Flatten(ss) == IF ss = <<>> THEN <<>> ELSE Head(ss) \o Flatten(Tail(ss))

\* parseICS: the events of every component, those in the range only
parseICS(name, feed, t, end) ==
    SelectSeq(Flatten(parsedOf(name, feed, t, end)), LAMBDA e : inRange(e, t, end))

\* the VEVENTs a feed may hold
ICSComps ==
    {[uid |-> "s", summary |-> <<"s">>, startBy |-> by, dtstart |-> st,
      dtend |-> en, rrule |-> r] :
        by \in {"DateTime", "parseDateTime", "parseDateOnly", "none"},
        st \in {0, 10, ICSDay},
        en \in {NoTime, 0, 11, ICSDay, 2 * ICSDay},
        r \in {NoRule, [interval |-> ICSDay, count |-> 4]}}

\* a date-only value is a midnight; a DTSTART no parser accepts has no value
ICSFeedComps ==
    {c \in ICSComps :
        /\ c.startBy = "parseDateOnly" => AtMidnight(c.dtstart)
        /\ c.startBy = "none" => c.dtstart = 0 /\ c.dtend = NoTime /\ c.rrule = NoRule}

ICSFeeds == UNION {[1..n -> ICSFeedComps] : n \in 1..MaxFeed}

NoICS == [feed |-> <<>>, now |-> 0, end |-> 0]

\* Fetch(ctx, end): the feed is read and parsed at the instant t
FetchICS ==
    /\ icsIn = NoICS
    /\ \E feed \in ICSFeeds, t \in {0, 10, 11}, end \in {34, 2 * ICSDay, 3 * ICSDay} :
          /\ icsIn' = [feed |-> feed, now |-> t, end |-> end]
          /\ icsOut' = [parsed |-> parsedOf("A", feed, t, end),
                        events |-> parseICS("A", feed, t, end)]
    /\ UNCHANGED <<filterVars, uiVars, line, auxVars, now, appVars, notifyVars, syncVars>>

----------------------------------------------------------------------------
(* Event.IsOngoing, Event.IsUpcoming and the time column of the menu's
   event line; time in 30 s units again *)

\* latest instant of the events and of the clock of a formatted line
MaxClock == 6

\* now.After(e.Start) && now.Before(e.End)
IsOngoing(e, t) == t > e.start /\ t < e.end

IsUpcoming(e, t, within) == e.start - t > 0 /\ e.start - t <= within

\* timeStr of formatEventLine: NOW, "in Nm", or the clock time of the start
timeStr(e, t) ==
    IF IsOngoing(e, t)
    THEN "NOW"
    ELSE IF e.start - t <= 15 * Minute /\ e.start - t > 0
         THEN "in"
         ELSE "clock"

NoLine == [event |-> ICSEvent("A", "none", <<>>, 0, 0, FALSE), at |-> -1,
           ongoing |-> FALSE, upcoming |-> FALSE, timeStr |-> ""]

\* the menu formats the line of a timed event at the instant t
formatEventLine ==
    /\ \E st \in 0..MaxClock, en \in 0..MaxClock, t \in 0..MaxClock :
          /\ st < en
          /\ LET e == ICSEvent("A", "a1", <<"s">>, st, en, FALSE)
             IN line' = [event |-> e, at |-> t,
                         ongoing |-> IsOngoing(e, t),
                         upcoming |-> IsUpcoming(e, t, 15 * Minute),
                         timeStr |-> timeStr(e, t)]
    /\ UNCHANGED <<filterVars, icsVars, uiVars, auxVars, now, appVars, notifyVars, syncVars>>

----------------------------------------------------------------------------
(* internal/links: meeting links in the fields of an event.  A text is a
   sequence of words; a word is a link of a service, another URL, or neither,
   and carries the field it stands in. *)

\* the service patterns, in the order of the patterns slice
ServicePatterns == <<"zoom", "teams", "meet", "webex">>

\* most words in one field
MaxText == 2

IsService(w) == \E k \in 1..Len(ServicePatterns) : ServicePatterns[k] = w.svc

\* the last pattern: any URL, those of the services too
IsURL(w) == w.svc = "http" \/ IsService(w)

\* pattern.MatchString(w) for the pattern of a service, or "http" for the last one
MatchString(pattern, w) == IF pattern = "http" THEN IsURL(w) ELSE w.svc = pattern

\* pattern.FindString(text): the leftmost match, NoLink for none
FindString(text, pattern) ==
    IF \E k \in 1..Len(text) : MatchString(pattern, text[k])
    THEN text[CHOOSE k \in 1..Len(text) :
                 /\ MatchString(pattern, text[k])
                 /\ \A j \in 1..(k - 1) : ~MatchString(pattern, text[j])]
    ELSE NoLink

\* the first pass of detectInText: the first pattern, in slice order, that
\* matches gives its leftmost match
RECURSIVE servicePass(_, _)
servicePass(text, i) ==
    IF i > Len(ServicePatterns)
    THEN NoLink
    ELSE LET match == FindString(text, ServicePatterns[i])
         IN IF match # NoLink THEN match ELSE servicePass(text, i + 1)

detectInText(text) ==
    IF text = <<>>
    THEN NoLink
    ELSE IF servicePass(text, 1) # NoLink
         THEN servicePass(text, 1)
         ELSE FindString(text, "http")

Detect(location, description) ==
    IF detectInText(location) # NoLink
    THEN detectInText(location)
    ELSE detectInText(description)

\* url is the URL property: empty, or one word
\* mutant: any URL in the url field is taken
DetectFromEventAnyURL(location, description, url) ==
    IF url # NoLink /\ IsURL(url)
    THEN url
    ELSE Detect(location, description)

DetectFromEvent(location, description, url) ==
    IF url # NoLink /\ IsService(url)
    THEN url
    ELSE Detect(location, description)

LinkWords(field) ==
    {[svc |-> v, at |-> field] : v \in {"word", "http", "zoom", "meet"}}

LinkTexts(field) == UNION {[1..n -> LinkWords(field)] : n \in 0..MaxText}

NoLinkIn == [location |-> <<>>, description |-> <<>>, url |-> NoLink, called |-> FALSE]

\* sendNotification looks for the meeting link of an event
DetectLink ==
    /\ ~linkIn.called
    /\ \E location \in LinkTexts("location"), description \in LinkTexts("description"),
          url \in {NoLink} \cup LinkWords("url") :
          /\ linkIn' = [location |-> location, description |-> description,
                        url |-> url, called |-> TRUE]
          /\ linkOut' = DetectFromEvent(location, description, url)
    /\ UNCHANGED <<coreVars, durVars, srcVars, viewVars, goVars>>

----------------------------------------------------------------------------
(* internal/config: parseDuration.  A string is a sequence of one-character
   strings; a duration is counted in minutes. *)

\* the longest string handed to parseDuration
MaxDur == 3

DurChars == {" ", "-", "0", "5", "d", "w", "m", "x"}

DurMinute == 1
DurHour == 60 * DurMinute

IsDigit(c) == c \in {"0", "1", "2", "3", "4", "5", "6", "7", "8", "9"}

DigitValue(c) ==
    CASE c = "0" -> 0 [] c = "1" -> 1 [] c = "2" -> 2 [] c = "3" -> 3
      [] c = "4" -> 4 [] c = "5" -> 5 [] c = "6" -> 6 [] c = "7" -> 7
      [] c = "8" -> 8 [] c = "9" -> 9

DurOK(d) == [d |-> d, err |-> FALSE]
DurErr == [d |-> 0, err |-> TRUE]

RECURSIVE TrimLeft(_)
TrimLeft(s) == IF s # <<>> /\ Head(s) = " " THEN TrimLeft(Tail(s)) ELSE s

RECURSIVE TrimRight(_)
TrimRight(s) ==
    IF s # <<>> /\ s[Len(s)] = " " THEN TrimRight(SubSeq(s, 1, Len(s) - 1)) ELSE s

TrimSpace(s) == TrimRight(TrimLeft(s))

TrimSuffix(s, p) == IF HasSuffix(s, p) THEN SubSeq(s, 1, Len(s) - Len(p)) ELSE s

\* the digits s starts with, and their value after v
RECURSIVE leadingInt(_, _)
leadingInt(s, v) ==
    IF s # <<>> /\ IsDigit(Head(s))
    THEN leadingInt(Tail(s), 10 * v + DigitValue(Head(s)))
    ELSE [v |-> v, rem |-> s]

\* fmt.Sscanf(s, "%d", &n): leading spaces are skipped, then an optional
\* sign and at least one digit; whatever follows the digits is left unread
Sscanf(s) ==
    LET t == TrimLeft(s)
        neg == t # <<>> /\ Head(t) = "-"
        u == IF t # <<>> /\ Head(t) \in {"-", "+"} THEN Tail(t) ELSE t
        n == leadingInt(u, 0)
    IN IF u = <<>> \/ ~IsDigit(Head(u))
       THEN [err |-> TRUE, n |-> 0]
       ELSE [err |-> FALSE, n |-> IF neg THEN 0 - n.v ELSE n.v]

\* the letters a unit is made of: up to the next digit
RECURSIVE unitLen(_)
unitLen(s) == IF s = <<>> \/ IsDigit(Head(s)) THEN 0 ELSE 1 + unitLen(Tail(s))

\* unitMap of package time, for the units the strings can spell
HasUnit(u) == u = <<"m">>
UnitValue(u) == DurMinute

\* the loop of time.ParseDuration: number, unit, number, unit, ...
RECURSIVE parseTerms(_, _)
parseTerms(s, d) ==
    IF s = <<>>
    THEN DurOK(d)
    ELSE IF ~IsDigit(Head(s))
         THEN DurErr
         ELSE LET n == leadingInt(s, 0)
                  i == unitLen(n.rem)
                  u == SubSeq(n.rem, 1, i)
              IN IF i = 0 \/ ~HasUnit(u)
                 THEN DurErr
                 ELSE parseTerms(SubSeq(n.rem, i + 1, Len(n.rem)), d + n.v * UnitValue(u))

ParseDuration(orig) ==
    LET neg == orig # <<>> /\ Head(orig) = "-"
        s == IF orig # <<>> /\ Head(orig) \in {"-", "+"} THEN Tail(orig) ELSE orig
        r == parseTerms(s, 0)
    IN IF s = <<"0">> THEN DurOK(0)
       ELSE IF s = <<>> \/ r.err THEN DurErr
       ELSE IF neg THEN DurOK(0 - r.d) ELSE r

\* the branch of one suffix: the count before it, times the length of the unit
suffixed(s, p, unit) ==
    LET n == Sscanf(TrimSuffix(s, p))
    IN IF n.err \/ n.n < 0 THEN DurErr ELSE DurOK(n.n * unit)

parseDuration(str) ==
    LET s == TrimSpace(str)
    IN IF s = <<>> THEN DurOK(0)
       ELSE IF HasSuffix(s, <<"d">>) THEN suffixed(s, <<"d">>, 24 * DurHour)
       ELSE IF HasSuffix(s, <<"w">>) THEN suffixed(s, <<"w">>, 7 * 24 * DurHour)
       ELSE ParseDuration(s)

DurStrings == UNION {[1..n -> DurChars] : n \in 0..MaxDur}

NoDurIn == [s |-> <<>>, called |-> FALSE]

\* the configuration loader parses one duration setting
LoadDuration ==
    /\ ~durIn.called
    /\ \E str \in DurStrings :
          /\ durIn' = [s |-> str, called |-> TRUE]
          /\ durOut' = parseDuration(str)
    /\ UNCHANGED <<coreVars, linkVars, srcVars, viewVars, goVars>>

----------------------------------------------------------------------------
(* internal/config: SourceConfig.Validate *)

\* most calendars a source names
MaxCalendars == 1

\* mutant: the calendars are not looked at
isEmptyButCalendars(c) ==
    /\ c.type = ""
    /\ c.url = "" /\ c.urlCmd = ""
    /\ c.username = "" /\ c.usernameCmd = ""
    /\ c.password = "" /\ c.passwordCmd = ""

isEmpty(c) ==
    /\ c.type = ""
    /\ c.url = "" /\ c.urlCmd = ""
    /\ c.username = "" /\ c.usernameCmd = ""
    /\ c.password = "" /\ c.passwordCmd = ""
    /\ Len(c.calendars) = 0

Validate(c) ==
    IF c.name = ""
    THEN "source name is required"
    ELSE IF c.configCmd # ""
         THEN IF ~isEmpty(c)
              THEN "config_cmd and inline connection fields are mutually exclusive"
              ELSE NoErr
         ELSE IF c.type = ""
              THEN "type is required when config_cmd is not set"
              ELSE NoErr

SourceConfigs ==
    [name : {"", "test"}, configCmd : {"", "echo test"},
     type : {"", "ics"}, url : {"", "https://example.com"},
     urlCmd : {"", "echo url"},
     username : {"", "user"}, usernameCmd : {"", "echo user"},
     password : {"", "secret"}, passwordCmd : {"", "pass show foo"},
     calendars : UNION {[1..n -> {"Personal"}] : n \in 0..MaxCalendars},
     called : {TRUE}]

NoSource ==
    [name |-> "", configCmd |-> "", type |-> "", url |-> "", urlCmd |-> "",
     username |-> "", usernameCmd |-> "", password |-> "", passwordCmd |-> "",
     calendars |-> <<>>, called |-> FALSE]

\* the configuration loader validates one source
ValidateSource ==
    /\ ~srcIn.called
    /\ \E c \in SourceConfigs :
          /\ srcIn' = c
          /\ srcOut' = Validate(c)
    /\ UNCHANGED <<coreVars, linkVars, durVars, viewVars, goVars>>

----------------------------------------------------------------------------
(* The view builders: formatEventList of the menu backend and Popup.updateList
   of the GTK backend.  Time is counted in hours of local time, a day starts
   at every multiple of 24. *)

\* most events in the list a view is built from
MaxView == 2

\* cfg.UI.TimeRange and cfg.UI.EventEndGrace of the views that are built
ViewRange == 24
ViewGrace == 1

\* time.Date(y, m, d, 0, 0, 0, 0, time.Local) of the day of t
DayOf(t) == t - (t % ICSDay)

\* the order of the letters summaries are made of
Letters == <<"a", "b">>

LetterRank(c) == CHOOSE k \in 1..Len(Letters) : Letters[k] = c

\* a < b for strings
RECURSIVE StringLess(_, _)
StringLess(a, b) ==
    IF b = <<>> THEN FALSE
    ELSE IF a = <<>> THEN TRUE
    ELSE IF LetterRank(Head(a)) # LetterRank(Head(b))
         THEN LetterRank(Head(a)) < LetterRank(Head(b))
         ELSE StringLess(Tail(a), Tail(b))

RECURSIVE SortedBySummary(_)
\* every order sort.Slice may leave when it sorts by summary
SortedBySummary(all) ==
    IF Len(all) = 0
    THEN {<<>>}
    ELSE UNION { {<<all[i]>> \o rest : rest \in SortedBySummary(RemoveAt(all, i))} :
                 i \in {j \in 1..Len(all) :
                          \A k \in 1..Len(all) : ~StringLess(all[k].summary, all[j].summary)} }

\* the two tests both builders start the loop with
pastGrace(e, t, grace) == e.end + grace < t

afterCutoff(e, t, range) == e.start > t + range

\* the all-day test of the menu: the day after the end counts unless the
\* event ends at midnight
spansTodayMenu(e, t) ==
    LET eventStart == DayOf(e.start)
        eventEnd == IF AtMidnight(e.end) THEN DayOf(e.end) ELSE DayOf(e.end) + ICSDay
    IN ~(DayOf(t) < eventStart) /\ DayOf(t) < eventEnd

\* the all-day test of the popup
spansTodayPopup(e, t) ==
    ~(DayOf(t) < DayOf(e.start)) /\ DayOf(t) < DayOf(e.end)

\* the sections of a view before their sorts
Sections(timedEvents, allDayEvents) == [timed |-> timedEvents, allDay |-> allDayEvents]

\* the sorts both builders end the partition with
sortSections(v) ==
    {Sections(t, a) : t \in SortedBy(v.timed), a \in SortedBySummary(v.allDay)}

kept(evs, t, range, grace) ==
    SelectSeq(evs, LAMBDA e : ~pastGrace(e, t, grace) /\ ~afterCutoff(e, t, range))

formatEventList(evs, t, range, grace) ==
    LET isLong(e) == e.allDay \/ e.end - e.start >= ICSDay
    IN sortSections(Sections(
           SelectSeq(kept(evs, t, range, grace), LAMBDA e : ~isLong(e)),
           SelectSeq(kept(evs, t, range, grace), LAMBDA e : isLong(e) /\ spansTodayMenu(e, t))))

updateList(evs, t, range, grace) ==
    sortSections(Sections(
        SelectSeq(kept(evs, t, range, grace), LAMBDA e : ~e.allDay),
        SelectSeq(kept(evs, t, range, grace), LAMBDA e : e.allDay /\ spansTodayPopup(e, t))))

\* the instant the views are built at: 06:00 of the second day
ViewNow == 30

ViewTimes == {12, 24, 36, 48, 60}

ViewEvents ==
    {ICSEvent("A", "v", <<Letters[k]>>, se[1], se[2], ad) :
        k \in 1..Len(Letters),
        se \in {x \in ViewTimes \X ViewTimes : x[1] <= x[2]},
        ad \in BOOLEAN}

ViewLists == UNION {[1..n -> ViewEvents] : n \in 0..MaxView}

NoViewIn == [events |-> <<>>, at |-> -1, backend |-> ""]

NoView == Sections(<<>>, <<>>)

\* SetEvents of a backend: the list is built from the events it is given
BuildView ==
    /\ viewIn = NoViewIn
    /\ \E evs \in ViewLists, backend \in {"menu", "gtk"} :
          /\ viewIn' = [events |-> evs, at |-> ViewNow, backend |-> backend]
          /\ viewOut' \in IF backend = "menu"
                          THEN formatEventList(evs, ViewNow, ViewRange, ViewGrace)
                          ELSE updateList(evs, ViewNow, ViewRange, ViewGrace)
    /\ UNCHANGED <<coreVars, linkVars, durVars, srcVars, goVars>>

----------------------------------------------------------------------------
(* App.sendNotification with the "join" action, and the callback of
   WatchActions *)

\* most calls of sendNotification
MaxNotifs == 2

\* the fields of the events that are notified of: at most one word each
JoinWords(field) == {[svc |-> v, at |-> field] : v \in {"word", "http", "zoom"}}

JoinTexts(field) == {<<>>} \cup {<<w>> : w \in JoinWords(field)}

NoNotification ==
    [uid |-> "", location |-> <<>>, description |-> <<>>, url |-> NoLink,
     actions |-> {}, result |-> "", id |-> 0]

NoJoin == [id |-> 0, url |-> NoLink]

\* sendNotification(event, startsIn) for an event that starts in Before[1]:
\* the action, the Send, and the id kept for the link
SendNotification ==
    /\ Len(sentLog) < MaxNotifs
    /\ \E uid \in {"a1", "b1"}, location \in JoinTexts("location"),
          description \in JoinTexts("description"),
          url \in {NoLink} \cup JoinWords("url"), fails \in BOOLEAN :
          LET meetingLink == DetectFromEvent(location, description, url)
              e == ICSEvent("A", uid, <<"s">>, now + Before[1], now + Before[1] + 1, FALSE)
              st == sendNotification([notified |-> notified, log |-> sentLog],
                                     e, Before[1], Before[1], now, fails)
              result == st.log[Len(st.log)].result
              id == IF result = "sent" THEN lastID + 1 ELSE 0
          IN /\ notified' = st.notified
             /\ sentLog' = st.log
             /\ lastID' = IF result = "sent" THEN id ELSE lastID
             /\ notif' = [uid |-> uid, location |-> location,
                          description |-> description, url |-> url,
                          actions |-> IF meetingLink # NoLink THEN {"join"} ELSE {},
                          result |-> result, id |-> id]
             /\ notificationIDs' =
                    IF result # "error" /\ meetingLink # NoLink /\ id # 0
                    THEN Put(notificationIDs, id, meetingLink)
                    ELSE notificationIDs
    /\ UNCHANGED <<filterVars, icsVars, line, uiVars, now, appVars, notifiedEvents,
                   syncVars, pureVars, opened, raceVars>>

\* the callback of WatchActions for the action key "join", which the
\* service sends with the id of a notification it has shown
JoinAction ==
    /\ \E id \in 1..lastID :
          opened' = [id |-> id,
                     url |-> IF id \in DOMAIN notificationIDs
                             THEN notificationIDs[id]
                             ELSE NoLink]
    /\ UNCHANGED <<coreVars, pureVars, notificationIDs, lastID, notif, raceVars>>

----------------------------------------------------------------------------
(* The goroutines of the application and App.mu. Run starts the sync
   goroutine and the notification goroutine; the UI delivers the hide and
   unhide intents and the notification service the "join" action. In the build
   without GTK scheduleUIUpdate calls updateUI on the goroutine it is called
   on. A critical section is two steps: the lock together with what is done
   under it, and the unlock. *)

Goroutines == {"sync", "notify", "intent", "action"}

\* a sync.RWMutex: the goroutine holding the write lock and those holding a read lock
Free == [writer |-> "", readers |-> {}]

NoMenu == [events |-> <<>>, hidden |-> <<>>]

NoLocal ==
    [view |-> NoMenu, lastSync |-> NoTime, lastSyncErr |-> NoErr,
     events |-> <<>>, pending |-> <<>>, id |-> 0, url |-> NoLink]

NoAccess == [by |-> "", reads |-> {}, writes |-> {}, held |-> "none"]

\* a goroutine that is not in gpc is idle, one that is not in local holds
\* nothing in its local variables
At(g) == IF g \in DOMAIN gpc THEN gpc[g] ELSE "idle"

Local(g) == IF g \in DOMAIN local THEN local[g] ELSE NoLocal

Drop(f, k) ==
    IF DOMAIN f \ {k} = {} THEN <<>> ELSE [x \in DOMAIN f \ {k} |-> f[x]]

Goto(g, pc) == IF pc = "idle" THEN Drop(gpc, g) ELSE Put(gpc, g, pc)

Keep(g, l) == IF l = NoLocal THEN Drop(local, g) ELSE Put(local, g, l)

\* the lock of m that g holds
Held(m, g) ==
    IF m.writer = g THEN "write" ELSE IF g \in m.readers THEN "read" ELSE "none"

\* mutant: the write lock is not taken
LockSkipped(g) == mu' = mu

\* a.mu.Lock() and a.mu.RLock() return once the lock can be taken
Lock(g) ==
    /\ mu = Free
    /\ mu' = [mu EXCEPT !.writer = g]

RLock(g) ==
    /\ mu.writer = ""
    /\ mu' = [mu EXCEPT !.readers = @ \cup {g}]

\* the fields of App that a step touches, and the lock it holds as it does
Touch(g, reads, writes) ==
    access' = [by |-> g, reads |-> reads, writes |-> writes, held |-> Held(mu', g)]

\* where a goroutine goes on after its a.mu.Unlock() or a.mu.RUnlock()
AfterUnlock(pc) ==
    CASE pc = "syncLocked" -> "ui"
      [] pc = "intentLocked" -> "ui"
      [] pc = "idsLocked" -> "ids"
      [] pc = "checkLocked" -> "check"
      [] pc = "uiLocked" -> "uiSet"
      [] pc = "trayLocked" -> "traySet"
      [] pc = "tipLocked" -> "idle"
      [] pc = "joinLocked" -> "open"

\* a.mu.Unlock(); after the one of updateTrayTooltip the tooltip is set and
\* updateUI returns
Unlock(g) ==
    /\ At(g) \in {"syncLocked", "intentLocked", "idsLocked"}
    /\ mu.writer = g
    /\ mu' = Free
    /\ gpc' = Goto(g, AfterUnlock(At(g)))
    /\ access' = NoAccess
    /\ UNCHANGED <<coreVars, pureVars, joinVars, local, menu>>

RUnlock(g) ==
    /\ At(g) \in {"checkLocked", "uiLocked", "trayLocked", "tipLocked", "joinLocked"}
    /\ g \in mu.readers
    /\ mu' = [mu EXCEPT !.readers = @ \ {g}]
    /\ gpc' = Goto(g, AfterUnlock(At(g)))
    /\ access' = NoAccess
    /\ UNCHANGED <<coreVars, pureVars, joinVars, local, menu>>

\* the sync goroutine: the Sync of Run's first round returns and
\* onSyncComplete takes the lock; the next round is an Interval away
SyncLocked ==
    /\ At("sync") = "idle"
    /\ lastSync = NoTime
    /\ Lock("sync")
    /\ \E r \in Sync :
          /\ onSyncComplete(r)
          /\ Touch("sync",
                   IF r.err # NoErr THEN {} ELSE {"events"},
                   IF r.err # NoErr THEN {"lastSync", "lastSyncErr"}
                   ELSE {"events", "lastSync", "lastSyncErr"})
    /\ gpc' = Goto("sync", "syncLocked")
    /\ UNCHANGED <<uiVars, syncVars, joinVars, local, menu>>

\* the UI calls OnHide or OnUnhide with the uid of an entry of the list it
\* was given last
HideLocked ==
    /\ At("intent") = "idle"
    /\ Lock("intent")
    /\ \E k \in 1..Len(menu.events) : hideEvent(menu.events[k].uid)
    /\ Touch("intent", {"events", "hiddenEntries"}, {"hiddenEntries"})
    /\ gpc' = Goto("intent", "intentLocked")
    /\ UNCHANGED <<uiVars, joinVars, local, menu>>

UnhideLocked ==
    /\ At("intent") = "idle"
    /\ Lock("intent")
    /\ \E k \in 1..Len(menu.hidden) : unhideEvent(menu.hidden[k].uid)
    /\ Touch("intent", {"events", "hiddenEntries"}, {"hiddenEntries"})
    /\ gpc' = Goto("intent", "intentLocked")
    /\ UNCHANGED <<uiVars, joinVars, local, menu>>

\* updateUI: the two lists, lastSync and lastSyncErr are copied under the read lock
UIRead(g) ==
    /\ At(g) = "ui"
    /\ RLock(g)
    /\ local' = Keep(g, [NoLocal EXCEPT !.view = PublishedEvents(events, hiddenEntries),
                                        !.lastSync = lastSync,
                                        !.lastSyncErr = lastSyncErr])
    /\ Touch(g, {"events", "hiddenEntries", "lastSync", "lastSyncErr"}, {})
    /\ gpc' = Goto(g, "uiLocked")
    /\ UNCHANGED <<coreVars, pureVars, joinVars, menu>>

\* updateUI after the lock is released: SetEvents, SetHiddenEvents, SetStale,
\* and the tray state when the data is stale
UISet(g) ==
    /\ At(g) = "uiSet"
    /\ menu' = Local(g).view
    /\ LET stale == isStale(Local(g).lastSync, Local(g).lastSyncErr, now)
       IN /\ ui' = [loading |-> FALSE, stale |-> stale,
                    tray |-> IF stale THEN "stale" ELSE ui.tray]
          /\ gpc' = Goto(g, IF stale THEN "tip" ELSE "tray")
    /\ local' = Keep(g, NoLocal)
    /\ access' = NoAccess
    /\ UNCHANGED <<filterVars, icsVars, line, now, appVars, notifyVars, syncVars,
                   shown, pureVars, joinVars, mu>>

\* updateTrayState: the visible events are copied under the read lock
TrayRead(g) ==
    /\ At(g) = "tray"
    /\ RLock(g)
    /\ local' = Keep(g, [NoLocal EXCEPT !.events = visibleEvents(events, hiddenEntries)])
    /\ Touch(g, {"events", "hiddenEntries"}, {})
    /\ gpc' = Goto(g, "trayLocked")
    /\ UNCHANGED <<coreVars, pureVars, joinVars, menu>>

TraySet(g) ==
    /\ At(g) = "traySet"
    /\ ui' = [ui EXCEPT !.tray = updateTrayState(Local(g).events, now)]
    /\ gpc' = Goto(g, "tip")
    /\ local' = Keep(g, NoLocal)
    /\ access' = NoAccess
    /\ UNCHANGED <<filterVars, icsVars, line, now, appVars, notifyVars, syncVars,
                   shown, pureVars, joinVars, mu, menu>>

\* updateTrayTooltip: the visible events are copied under the read lock
TipRead(g) ==
    /\ At(g) = "tip"
    /\ RLock(g)
    /\ Touch(g, {"events", "hiddenEntries"}, {})
    /\ gpc' = Goto(g, "tipLocked")
    /\ UNCHANGED <<coreVars, pureVars, joinVars, local, menu>>

\* a tick of notificationLoop when no notifier is configured:
\* checkNotifications returns at once and scheduleUIUpdate is called
TickOff ==
    /\ At("notify") = "idle"
    /\ checkNotificationsOff
    /\ gpc' = Goto("notify", "ui")
    /\ access' = NoAccess
    /\ UNCHANGED <<uiVars, joinVars, mu, local, menu>>

\* a tick of notificationLoop: checkNotifications copies the visible events
\* under the read lock
CheckRead ==
    /\ At("notify") = "idle"
    /\ Len(sentLog) < MaxNotifs
    /\ RLock("notify")
    /\ local' = Keep("notify",
                     [NoLocal EXCEPT !.events = visibleEvents(events, hiddenEntries)])
    /\ Touch("notify", {"events", "hiddenEntries"}, {})
    /\ gpc' = Goto("notify", "checkLocked")
    /\ UNCHANGED <<coreVars, pureVars, joinVars, menu>>

\* the event a log entry of this tick is about
sentEvent(vis, entry, t) ==
    vis[CHOOSE k \in 1..Len(vis) :
            /\ vis[k].uid = entry.uid
            /\ considered(vis[k], t)
            /\ inWindow(vis[k].start - t, entry.before)
            /\ \A j \in 1..(k - 1) :
                  ~(/\ vis[j].uid = entry.uid
                    /\ considered(vis[j], t)
                    /\ inWindow(vis[j].start - t, entry.before))]

RECURSIVE idsOf(_, _, _, _, _)
\* the ids Send gives out for the entries of the log from k on, and with
\* each the link sendNotification is to keep for it
idsOf(vis, log, k, last, t) ==
    IF k > Len(log)
    THEN [last |-> last, pending |-> <<>>]
    ELSE IF log[k].result # "sent"
    THEN idsOf(vis, log, k + 1, last, t)
    ELSE LET e == sentEvent(vis, log[k], t)
             meetingLink == DetectFromEvent(e.location, e.description, e.url)
             rest == idsOf(vis, log, k + 1, last + 1, t)
         IN [rest EXCEPT !.pending =
                (IF meetingLink # NoLink
                 THEN << [id |-> last + 1, url |-> meetingLink] >>
                 ELSE <<>>) \o @]

\* the loops of checkNotifications on the copy: a.notifiedEvents is looked up,
\* written and cleaned up with no lock held. Each sendNotification that has a
\* link to keep takes the write lock for it; the map of tickets is used by
\* this goroutine alone, so the writes of the links are taken after the loops
CheckLoop ==
    /\ At("notify") = "check"
    /\ checkNotificationsOn(Local("notify").events)
    /\ LET ids == idsOf(Local("notify").events, sentLog', Len(sentLog) + 1, lastID, now)
       IN /\ lastID' = ids.last
          /\ local' = Keep("notify", [NoLocal EXCEPT !.pending = ids.pending])
    /\ access' = [by |-> "notify", reads |-> {"notifiedEvents"},
                  writes |-> IF notifiedEvents' # notifiedEvents
                             THEN {"notifiedEvents"} ELSE {},
                  held |-> Held(mu, "notify")]
    /\ gpc' = Goto("notify", "ids")
    /\ UNCHANGED <<uiVars, notificationIDs, notif, opened, mu, menu>>

\* sendNotification: a.notificationIDs[id] = meetingLink under the write lock
IDLocked ==
    /\ At("notify") = "ids"
    /\ Local("notify").pending # <<>>
    /\ Lock("notify")
    /\ notificationIDs' = Put(notificationIDs, Head(Local("notify").pending).id,
                              Head(Local("notify").pending).url)
    /\ local' = Keep("notify", [Local("notify") EXCEPT !.pending = Tail(@)])
    /\ Touch("notify", {}, {"notificationIDs"})
    /\ gpc' = Goto("notify", "idsLocked")
    /\ UNCHANGED <<coreVars, pureVars, lastID, notif, opened, menu>>

\* checkNotifications returns and notificationLoop calls scheduleUIUpdate
CheckReturn ==
    /\ At("notify") = "ids"
    /\ Local("notify").pending = <<>>
    /\ gpc' = Goto("notify", "ui")
    /\ access' = NoAccess
    /\ UNCHANGED <<coreVars, pureVars, joinVars, mu, local, menu>>

\* the callback of WatchActions for "join" with the id of a notification
\* that was shown: the link is looked up under the read lock
JoinRead ==
    /\ At("action") = "idle"
    /\ RLock("action")
    /\ \E id \in 1..lastID :
          local' = Keep("action",
                        [NoLocal EXCEPT !.id = id,
                                        !.url = IF id \in DOMAIN notificationIDs
                                                THEN notificationIDs[id]
                                                ELSE NoLink])
    /\ Touch("action", {"notificationIDs"}, {})
    /\ gpc' = Goto("action", "joinLocked")
    /\ UNCHANGED <<coreVars, pureVars, joinVars, menu>>

\* links.Open(url) when there is a link
JoinOpen ==
    /\ At("action") = "open"
    /\ opened' = [id |-> Local("action").id, url |-> Local("action").url]
    /\ local' = Keep("action", NoLocal)
    /\ gpc' = Goto("action", "idle")
    /\ access' = NoAccess
    /\ UNCHANGED <<coreVars, pureVars, notificationIDs, lastID, notif, mu, menu>>

----------------------------------------------------------------------------
(* Specifications *)

\* the application t after its start, the first round of Run still fetching
InitAt(t) ==
    /\ now = t
    /\ events = <<>>
    /\ hiddenEntries = <<>>
    /\ lastSync = NoTime
    /\ lastSyncErr = NoErr
    /\ notifiedEvents = <<>>
    /\ notified = <<>>
    /\ sentLog = <<>>
    /\ runPc = "start"
    /\ fetched = [i \in SourceIds |-> NotFetched]
    /\ ret = NoRet
    /\ taskPc = [i \in SourceIds |-> "idle"]
    /\ results = <<>>
    /\ closed = FALSE
    /\ acc = EmptyAcc
    /\ tickC = <<>>
    /\ ctxDone = FALSE
    /\ filterCfg = NoFilter
    /\ filterIn = <<>>
    /\ filterOut = <<>>
    /\ ui = [loading |-> TRUE, stale |-> FALSE, tray |-> "normal"]
    /\ shown = {}
    /\ icsIn = NoICS
    /\ icsOut = [parsed |-> <<>>, events |-> <<>>]
    /\ line = NoLine
    /\ linkIn = NoLinkIn
    /\ linkOut = NoLink
    /\ durIn = NoDurIn
    /\ durOut = DurErr
    /\ srcIn = NoSource
    /\ srcOut = NoErr
    /\ viewIn = NoViewIn
    /\ viewOut = NoView
    /\ notificationIDs = <<>>
    /\ lastID = 0
    /\ notif = NoNotification
    /\ opened = NoJoin
    /\ mu = Free
    /\ gpc = <<>>
    /\ local = <<>>
    /\ menu = NoMenu
    /\ access = NoAccess

Init == InitAt(0)

\* the application: sync rounds, user intents, notification ticks and the clock
Next ==
    \/ NoUI(SyncRound)
    \/ \E uid \in UIDs : NoUI(hideEvent(uid))
    \/ \E uid \in UIDs : NoUI(unhideEvent(uid))
    \/ NoUI(checkNotifications)
    \/ Advance

Spec == Init /\ [][Next]_vars

\* the application where sync.interval is no shorter than a unit of the
\* clock: Run completes at most one round in a unit
NextPaced ==
    \/ lastSync < now /\ NoUI(SyncRound)
    \/ \E uid \in UIDs : NoUI(hideEvent(uid))
    \/ \E uid \in UIDs : NoUI(unhideEvent(uid))
    \/ NoUI(checkNotifications)
    \/ Advance

SpecPaced == Init /\ [][NextPaced]_vars

\* the hidden registry under sync rounds and the clock
NextHide ==
    \/ NoUI(SyncRound)
    \/ \E uid \in UIDs : NoUI(hideEvent(uid))
    \/ \E uid \in UIDs : NoUI(unhideEvent(uid))
    \/ Advance

SpecHide == Init /\ [][NextHide]_vars

\* Syncer.Run with the goroutines of Sync interleaved, and the user intents
NextSync ==
    \/ SyncStart
    \/ \E i \in SourceIds : TaskFetch(i)
    \/ \E i \in SourceIds : TaskSend(i)
    \/ CloseResults
    \/ CollectNext
    \/ SyncFinish
    \/ NoUI(RunCallback)
    \/ RunBlock
    \/ Tick
    \/ \E uid \in UIDs : NoUI(hideEvent(uid))
    \/ \E uid \in UIDs : NoUI(unhideEvent(uid))

SpecSync == Init /\ [][NextSync]_vars

\* Syncer.Run against its ticker, its context and the clock
NextRun ==
    \/ SyncStart
    \/ \E i \in SourceIds : TaskFetch(i)
    \/ \E i \in SourceIds : TaskSend(i)
    \/ CloseResults
    \/ CollectNext
    \/ SyncFinish
    \/ NoUI(RunCallback)
    \/ RunBlock
    \/ Tick
    \/ Cancel
    \/ RunReturn
    \/ Advance

SpecRun == Init /\ [][NextRun]_vars

\* the application with what its UI shows, notifications switched off; the
\* user hides and unhides from the list, which is there once loading is over
NextView ==
    \/ WithUI(SyncRound)
    \/ ~ui.loading /\ \E uid \in UIDs : WithUI(hideEvent(uid))
    \/ ~ui.loading /\ \E uid \in UIDs : WithUI(unhideEvent(uid))
    \/ WithUI(checkNotificationsOff)
    \/ Advance

SpecView == Init /\ [][NextView]_vars

\* an ICS source fetching feeds
NextICS == FetchICS

SpecICS == Init /\ [][NextICS]_vars

\* the menu formatting event lines
NextLine == formatEventLine

SpecLine == Init /\ [][NextLine]_vars

\* the link detector on its own
NextLinks == DetectLink

SpecLinks == Init /\ [][NextLinks]_vars

\* parseDuration on its own
NextDuration == LoadDuration

SpecDuration == Init /\ [][NextDuration]_vars

\* Validate on its own
NextValidate == ValidateSource

SpecValidate == Init /\ [][NextValidate]_vars

\* the view builders on their own
NextBuild == BuildView

SpecBuild == Init /\ [][NextBuild]_vars

\* notifications with their "join" action
NextJoin ==
    \/ SendNotification
    \/ JoinAction

SpecJoin == Init /\ [][NextJoin]_vars

\* the steps of updateUI and the unlocks, on whichever goroutine
UISteps ==
    \/ \E g \in Goroutines : Unlock(g)
    \/ \E g \in Goroutines : RUnlock(g)
    \/ \E g \in Goroutines : UIRead(g)
    \/ \E g \in Goroutines : UISet(g)
    \/ \E g \in Goroutines : TrayRead(g)
    \/ \E g \in Goroutines : TraySet(g)
    \/ \E g \in Goroutines : TipRead(g)

\* the application from its first tick on
InitLate == InitAt(1)

\* the goroutines of the application in the build where scheduleUIUpdate
\* calls updateUI directly, notifications switched off
NextRace ==
    \/ SyncLocked
    \/ HideLocked
    \/ UnhideLocked
    \/ TickOff
    \/ UISteps

SpecRace == InitLate /\ [][NextRace]_vars

\* the goroutines of the application under App.mu while the user leaves the
\* list alone
NextLock ==
    \/ SyncLocked
    \/ CheckRead
    \/ CheckLoop
    \/ IDLocked
    \/ CheckReturn
    \/ JoinRead
    \/ JoinOpen
    \/ UISteps

SpecLock == InitLate /\ [][NextLock]_vars

\* the filter engine on its own
NextFilter ==
    \/ NewFilter
    \/ ApplyFilter

SpecFilter == Init /\ [][NextFilter]_vars

----------------------------------------------------------------------------
(* Helpers of the properties *)

Count(s, x) == Cardinality({k \in 1..Len(s) : s[k] = x})

Range(s) == {s[k] : k \in 1..Len(s)}

SameBag(s, t) ==
    /\ Len(s) = Len(t)
    /\ \A x \in Range(s) \cup Range(t) : Count(s, x) = Count(t, x)

\* the step in which Run applies a sync result with onSyncComplete
Applies == runPc = "callback" /\ runPc' = "wait"

Failed(i) == fetched[i].err \notin {NoErr, "pending"}

Succeeded(i) == fetched[i].err = NoErr

\* the source tags the adapter of source i gives its events
SourceTags(i) ==
    IF sources[i].kind = "ics"
    THEN {sources[i].name}
    ELSE {sources[i].name \o "/" \o "work"}

----------------------------------------------------------------------------
(* C1: applying a non-fatal sync result with failed-source list F to the prior
   snapshot yields exactly the prior events whose source is in F, marked
   stale, plus the events of the result, marked not stale, and nothing else;
   last_sync_err is cleared. *)
C1_StaleMerge ==
    [][(Applies /\ ret.err = NoErr) =>
         /\ SameBag(events',
                [k \in 1..Len(SelectSeq(events, LAMBDA e :
                                  e.source \in Range(ret.failedSources))) |->
                    [SelectSeq(events, LAMBDA e :
                         e.source \in Range(ret.failedSources))[k] EXCEPT !.stale = TRUE]]
                \o [k \in 1..Len(ret.events) |-> [ret.events[k] EXCEPT !.stale = FALSE]])
         /\ lastSyncErr' = NoErr]_vars

\* a partial round has been applied: a stale event next to a fresh one
C1_Witness ==
    /\ runPc = "wait"
    /\ \E k \in 1..Len(events) : events[k].stale
    /\ \E k \in 1..Len(events) : ~events[k].stale

(* C2: a fatal sync result leaves the snapshot, every stale flag and the
   hidden entries unchanged and sets last_sync_err to the error. *)
C2_FatalKeeps ==
    [][(Applies /\ ret.err # NoErr) =>
         /\ events' = events
         /\ hiddenEntries' = hiddenEntries
         /\ lastSyncErr' = ret.err]_vars

\* a fatal round has been applied over a snapshot with events and a hidden entry
C2_Witness ==
    /\ runPc = "wait"
    /\ lastSyncErr # NoErr
    /\ Len(events) > 0
    /\ Len(hiddenEntries) > 0

(* C3: when a source fails in a round in which another source returns
   events, every event of the failed source in the prior snapshot is in the
   new snapshot, marked stale; for every source kind. *)
C3_FailedSourceKept ==
    [][(Applies /\ ret.err = NoErr /\ Len(ret.events) > 0) =>
         \A i \in SourceIds : Failed(i) =>
             \A k \in 1..Len(events) : events[k].source \in SourceTags(i) =>
                 \E j \in 1..Len(events') : events'[j] = [events[k] EXCEPT !.stale = TRUE]]_vars

\* the events source i contributes to the round: its fetch, filtered
Filtered(i) == Apply(sources[i].filter, fetched[i].events)

FailedNames == {sources[i].name : i \in {x \in SourceIds : Failed(x)}}

(* C4: Sync returns a non-nil error iff the merged list is empty and at least
   one fetch failed; otherwise it returns the merged events with the
   failed-source names and a nil error. *)
C4_ErrorIffEmptyAndFailed ==
    runPc = "callback" =>
        /\ (ret.err # NoErr) <=>
               /\ \A i \in SourceIds : Succeeded(i) => Len(Filtered(i)) = 0
               /\ \E i \in SourceIds : Failed(i)
        /\ ret.err = NoErr =>
               /\ \A i \in SourceIds : Succeeded(i) =>
                      \A k \in 1..Len(Filtered(i)) :
                          Count(ret.events, Filtered(i)[k]) = Count(Filtered(i), Filtered(i)[k])
               /\ Range(ret.events) = UNION {Range(Filtered(i)) : i \in {x \in SourceIds : Succeeded(x)}}
               /\ Range(ret.failedSources) = FailedNames

\* Sync has returned an error
C4_Witness == runPc = "callback" /\ ret.err # NoErr

(* C5 as stated: a round surfaces its error only when every source failed. *)
C5_ErrorOnlyWhenAllFailed ==
    runPc = "callback" =>
        (ret.err # NoErr => \A i \in SourceIds : Failed(i))

(* C5 as amended: a round surfaces its representative error whenever every
   source failed, and never when a source that succeeded contributes an event
   after filtering; a source that succeeded with no event left does not keep
   the error of another source from being surfaced. *)
C5_ErrorUnlessEventsReturned ==
    runPc = "callback" =>
        /\ (\A i \in SourceIds : Failed(i)) => ret.err \in {FetchErr(i) : i \in SourceIds}
        /\ (\E i \in SourceIds : Succeeded(i) /\ Len(Filtered(i)) > 0) => ret.err = NoErr
        /\ ret.err # NoErr => Len(ret.events) = 0

\* an error is surfaced although one source succeeded, with nothing left after its filter
C5_Witness ==
    /\ runPc = "callback"
    /\ ret.err # NoErr
    /\ \E i \in SourceIds : Succeeded(i) /\ Len(fetched[i].events) > 0

(* C6: Sync returns after collecting exactly one result from each of the N
   fetch tasks; no task ever blocks on the result channel; the failed-source
   list holds exactly the names of the sources whose fetch failed, each once;
   the filtered events of every successful source are all in the merged
   output. *)
C6_FanInComplete ==
    /\ \A i \in SourceIds : taskPc[i] = "send" => Len(results) < ResultsCap
    /\ runPc = "callback" =>
          /\ \A i \in SourceIds : Failed(i) \/ Succeeded(i)
          /\ Len(results) = 0
          /\ Len(acc.failedSources) = Cardinality({i \in SourceIds : Failed(i)})
          /\ \A i \in SourceIds : Failed(i) => Count(acc.failedSources, sources[i].name) = 1
          /\ \A i \in SourceIds : Succeeded(i) =>
                 \A k \in 1..Len(Filtered(i)) :
                     /\ Count(acc.allEvents, Filtered(i)[k]) >= 1
                     /\ ret.err = NoErr => Count(ret.events, Filtered(i)[k]) >= 1

\* a round with one failed and one successful source has returned its events
C6_Witness ==
    /\ runPc = "callback"
    /\ Len(ret.failedSources) = 1
    /\ Len(ret.events) > 0

----------------------------------------------------------------------------
(* Properties of the notification scheduler; sentLog holds one record for
   every call of Notifier.Send, result "sent" when the notification went out *)

Sent(k) == sentLog[k].result = "sent"

(* C7: across ticks, sync rounds and hide/unhide intents at most one
   notification is sent for each (uid, threshold) pair while its ticket has
   not been pruned: two sends for one pair are more than the ticket lifetime
   apart. *)
C7_AtMostOnce ==
    \A i, j \in 1..Len(sentLog) :
        (i < j /\ Sent(i) /\ Sent(j)
           /\ sentLog[i].uid = sentLog[j].uid /\ sentLog[i].before = sentLog[j].before)
        => sentLog[j].at - sentLog[i].at > TicketTTL

\* a notification went out one tick period ago and its event is visible and
\* still inside the window of the same threshold
C7_Witness ==
    \E k \in 1..Len(sentLog) :
        /\ Sent(k)
        /\ now = sentLog[k].at + 1
        /\ \E x \in 1..Len(visibleEvents(events, hiddenEntries)) :
              /\ visibleEvents(events, hiddenEntries)[x].uid = sentLog[k].uid
              /\ inWindow(visibleEvents(events, hiddenEntries)[x].start - now, sentLog[k].before)
              /\ considered(visibleEvents(events, hiddenEntries)[x], now)

(* C8: a notification for (event, T) is sent at a tick only if
   0 < start - now <= T and start - now > T - 1 minute, for every configured
   T and also for an event whose start equals now. *)
C8_SentOnlyInWindow ==
    \A k \in 1..Len(sentLog) :
        Sent(k) =>
            /\ 0 < sentLog[k].startsIn
            /\ sentLog[k].startsIn <= sentLog[k].before
            /\ sentLog[k].startsIn > sentLog[k].before - Minute

(* C9: if sending the notification for (uid, T) fails, no ticket is recorded
   for (uid, T). *)
C9_NoTicketOnFailure ==
    [][\A k \in (Len(sentLog) + 1)..Len(sentLog') :
          sentLog'[k].result = "error" =>
              Key(sentLog'[k].uid, sentLog'[k].before) \notin DOMAIN notifiedEvents']_vars

----------------------------------------------------------------------------
(* Properties of the hidden registry *)

NoDuplicateUIDs(hidden) ==
    \A i, j \in 1..Len(hidden) : hidden[i].uid = hidden[j].uid => i = j

OldestFirst(hidden) ==
    \A i, j \in 1..Len(hidden) : i < j => hidden[i].hidden <= hidden[j].hidden

\* whether the garbage collection keeps an entry: its event is in the
\* snapshot and has not ended more than the grace period ago
Current(h) ==
    \E k \in 1..Len(events) :
        /\ events[k].uid = h.uid
        /\ \A j \in (k + 1)..Len(events) : events[j].uid # h.uid
        /\ ~(events[k].end + EventEndGrace < now)

(* C10 as stated: the hidden list has no two entries with one uid and is
   ordered oldest first; hide(uid) on a uid that is already hidden adds
   nothing and keeps that entry's hidden_at and position. *)
C10_HideKeepsEntry ==
    [][/\ NoDuplicateUIDs(hiddenEntries') /\ OldestFirst(hiddenEntries')
       /\ \A uid \in UIDs : (hideEvent(uid) /\ alreadyHidden(hiddenEntries, uid)) =>
              /\ Len(hiddenEntries') <= Len(hiddenEntries)
              /\ \A k \in 1..Len(hiddenEntries) : hiddenEntries[k].uid = uid =>
                     (k <= Len(hiddenEntries') /\ hiddenEntries'[k] = hiddenEntries[k])]_vars

(* C10 as amended: the hidden list has no two entries with one uid and is
   ordered oldest first; hide(uid) on a uid that is already hidden adds no
   entry and changes no hidden_at: the list afterwards is the prior list
   without the entries the garbage collection drops, in the prior order, and
   the uid's own entry stays, with its hidden_at, exactly when its event is
   in the snapshot and has not ended more than the grace period ago. *)
C10_HideAddsNothing ==
    [][/\ NoDuplicateUIDs(hiddenEntries') /\ OldestFirst(hiddenEntries')
       /\ \A uid \in UIDs : (hideEvent(uid) /\ alreadyHidden(hiddenEntries, uid)) =>
              /\ hiddenEntries' = SelectSeq(hiddenEntries, Current)
              /\ \A k \in 1..Len(hiddenEntries) : hiddenEntries[k].uid = uid =>
                     (Current(hiddenEntries[k]) <=>
                          \E j \in 1..Len(hiddenEntries') : hiddenEntries'[j] = hiddenEntries[k])]_vars

\* two events are hidden, at different times, and the clock has moved on:
\* a state in which hide finds its uid already hidden
C10_Witness ==
    /\ Len(hiddenEntries) = 2
    /\ hiddenEntries[1].hidden < hiddenEntries[2].hidden
    /\ hiddenEntries[2].hidden < now

(* C11: immediately after every garbage collection of the hidden registry,
   which runs at the end of each hide and unhide, every remaining hidden
   entry's uid is the uid of an event of the current snapshot and that
   event's end + event_end_grace is not before now. *)
C11_GCLeavesCurrent ==
    [][(\E uid \in UIDs : hideEvent(uid) \/ unhideEvent(uid)) =>
          \A k \in 1..Len(hiddenEntries') :
              \E j \in 1..Len(events') :
                  /\ events'[j].uid = hiddenEntries'[k].uid
                  /\ ~(events'[j].end + EventEndGrace < now')]_vars

\* a hide has just acted, on a snapshot that holds an event which ended more
\* than the grace period ago, and left an entry
C11_Witness ==
    /\ Len(hiddenEntries) > 0
    /\ hiddenEntries[Len(hiddenEntries)].hidden = now
    /\ \E j \in 1..Len(events) : events[j].end + EventEndGrace < now

(* C12: the hidden registry is garbage-collected after every sync round: once
   a sync result has been applied, no hidden entry refers to a uid that is
   absent from the new snapshot. *)
C12_SyncCollectsHidden ==
    [][Applies =>
          \A k \in 1..Len(hiddenEntries') : HasUID(events', hiddenEntries'[k].uid)]_vars

\* the hidden list after hide(u) immediately followed by unhide(u)
HideThenUnhide(u) ==
    unhideEntries(hideEntries(hiddenEntries, u, events, now), u, events, now)

(* C13 as stated: for every reachable state and every uid u, hidden
   beforehand or not, hide(u) immediately followed by unhide(u) leaves the
   visible view equal to what it was before the pair. *)
C13_HideUnhideNoOp ==
    \A u \in UIDs :
        visibleEvents(events, HideThenUnhide(u)) = visibleEvents(events, hiddenEntries)

(* C13 as amended: after hide(u) immediately followed by unhide(u) the
   visible view is the snapshot without the events hidden by an entry of
   another uid that the garbage collection keeps; so the pair leaves the
   visible view as it was when u was not hidden beforehand and every hidden
   entry is one the garbage collection keeps; otherwise the events of u, if it
   was hidden, and the events whose entry is collected become visible. *)
C13_HideUnhideShowsCollected ==
    \A u \in UIDs :
        /\ visibleEvents(events, HideThenUnhide(u)) =
               SelectSeq(events, LAMBDA e :
                   ~\E k \in 1..Len(hiddenEntries) :
                       /\ hiddenEntries[k].uid = e.uid
                       /\ hiddenEntries[k].uid # u
                       /\ Current(hiddenEntries[k]))
        /\ (~alreadyHidden(hiddenEntries, u)
               /\ \A k \in 1..Len(hiddenEntries) : Current(hiddenEntries[k]))
           => visibleEvents(events, HideThenUnhide(u)) = visibleEvents(events, hiddenEntries)

\* an event is visible next to a hidden one whose entry the garbage
\* collection keeps: the pair on the visible one has something to undo
C13_Witness ==
    \E u \in UIDs :
        /\ ~alreadyHidden(hiddenEntries, u)
        /\ HasUID(events, u)
        /\ Len(hiddenEntries) > 0
        /\ \A k \in 1..Len(hiddenEntries) : Current(hiddenEntries[k])

\* when the uid was hidden: the hidden_at of its entry
HiddenAt(uid) ==
    hiddenEntries[CHOOSE k \in 1..Len(hiddenEntries) : hiddenEntries[k].uid = uid].hidden

(* C14: visible(events) is exactly the events whose uid has no hidden entry,
   in snapshot order; hidden(events) is exactly the events whose uid has a
   hidden entry, ordered most recently hidden first; together they contain
   every event of the snapshot exactly once. *)
C14_ViewsPartition ==
    LET vis == visibleEvents(events, hiddenEntries)
        hid == hiddenEvents(events, hiddenEntries)
    IN /\ vis = SelectSeq(events, LAMBDA e :
                     \A k \in 1..Len(hiddenEntries) : hiddenEntries[k].uid # e.uid)
       /\ Range(hid) = {e \in Range(events) :
                           \E k \in 1..Len(hiddenEntries) : hiddenEntries[k].uid = e.uid}
       /\ \A i, j \in 1..Len(hid) :
              i < j => HiddenAt(hid[i].uid) >= HiddenAt(hid[j].uid)
       /\ \A e \in Range(events) : Count(vis, e) + Count(hid, e) = Count(events, e)
       /\ Len(vis) + Len(hid) = Len(events)

----------------------------------------------------------------------------
(* Properties of the filter engine, on the configuration filterCfg, the
   input filterIn and the output filterOut of an Apply *)

RuleMatches(k, e) == matches(compileRule(filterCfg.rules[k]), e)

ExcludeIds == {k \in 1..Len(filterCfg.rules) : filterCfg.rules[k].exclude}

IncludeIds == {k \in 1..Len(filterCfg.rules) : ~filterCfg.rules[k].exclude}

(* C15: Apply rejects every event that matches at least one exclude rule,
   whatever the mode and whatever include rules the event also matches. *)
C15_ExcludeWins ==
    \A i \in 1..Len(filterIn) :
        (\E k \in ExcludeIds : RuleMatches(k, filterIn[i]))
            => filterIn[i] \notin Range(filterOut)

\* in mode and, an event that an exclude rule and an include rule both match
\* was rejected by an Apply that kept another event
C15_Witness ==
    /\ filterCfg.mode = "and"
    /\ Len(filterOut) > 0
    /\ \E i \in 1..Len(filterIn) :
          /\ \E k \in ExcludeIds : RuleMatches(k, filterIn[i])
          /\ \E k \in IncludeIds : RuleMatches(k, filterIn[i])
          /\ filterIn[i] \notin Range(filterOut)

(* C16: an event matching no exclude rule is kept iff there are no include
   rules, or the mode is or and at least one include rule matches, or the
   mode is and and every include rule matches; an empty mode behaves as or. *)
C16_IncludeModes ==
    \A i \in 1..Len(filterIn) :
        (~\E k \in ExcludeIds : RuleMatches(k, filterIn[i])) =>
            (filterIn[i] \in Range(filterOut) <=>
                \/ IncludeIds = {}
                \/ /\ filterCfg.mode \in {"or", ""}
                   /\ \E k \in IncludeIds : RuleMatches(k, filterIn[i])
                \/ /\ filterCfg.mode = "and"
                   /\ \A k \in IncludeIds : RuleMatches(k, filterIn[i]))

\* with an empty mode and two include rules, an event that only one of them
\* matches was kept
C16_Witness ==
    /\ filterCfg.mode = ""
    /\ Cardinality(IncludeIds) = 2
    /\ \E i \in 1..Len(filterIn) :
          /\ filterIn[i] \in Range(filterOut)
          /\ \E k \in IncludeIds : RuleMatches(k, filterIn[i])
          /\ \E k \in IncludeIds : ~RuleMatches(k, filterIn[i])

----------------------------------------------------------------------------
(* Properties of Syncer.Run *)

\* the step in which Run enters Sync and the fetch goroutines are launched
Launches == runPc # "collect" /\ runPc' = "collect"

\* a fetch goroutine of some round has not finished
TasksRunning == \E i \in SourceIds : taskPc[i] \in {"fetch", "send"}

(* C17: Run performs one sync immediately at its start, and sync rounds never
   overlap: each round and its onSync callback have finished before the
   fetches of the next round are launched, however long a round takes
   relative to the interval. *)
C17_RoundsDoNotOverlap ==
    /\ [](runPc = "start" => (ENABLED SyncStart /\ lastSync = NoTime /\ tickC = <<>>))
    /\ [](TasksRunning => runPc = "collect")
    /\ [][/\ (runPc = "start" /\ runPc' # "start") => Launches
          /\ Launches =>
                /\ runPc \in {"start", "wait", "onTick"}
                /\ ~TasksRunning
                /\ results = <<>>
                /\ ret = NoRet
                /\ runPc # "start" => lastSync # NoTime
                /\ \A i \in SourceIds : taskPc'[i] = "fetch"]_vars

\* a round after the first is in flight, a fetch has not returned, and a tick
\* has fired since the round before it finished
C17_Witness ==
    /\ runPc = "collect"
    /\ lastSync # NoTime
    /\ TasksRunning
    /\ Len(tickC) > 0
    /\ tickC[1] > lastSync

(* C18: a tick that fires while a sync round is in flight is dropped, not
   queued: when the round finishes no tick is waiting, so no round is started
   on account of that tick, and the next round starts only at a tick that
   fired after the round finished. *)
C18_TickInFlightDropped ==
    [][/\ Applies => tickC' = <<>>
       /\ (runPc # "start" /\ Launches) => tickC[1] >= lastSync]_vars

(* C19: once the context is cancelled, Run starts no further sync round: a
   select that Run reaches or leaves with the context cancelled does not start
   a round, and Run then returns. *)
C19_NoRoundAfterCancel ==
    [][(ctxDone /\ runPc = "wait") => ~Launches]_vars

----------------------------------------------------------------------------
Sorted(evs) == \A i, j \in 1..Len(evs) : i < j => evs[i].start <= evs[j].start

(* C20: the list returned by Sync, and the snapshot held by the application
   after every applied sync result, also one that carries stale events
   forward, is sorted by non-decreasing start. *)
C20_SortedByStart ==
    /\ Sorted(events)
    /\ runPc = "callback" => Sorted(ret.events)

\* a result has been applied that carried a stale event forward behind a
\* fresh event with an earlier start
C20_Witness ==
    /\ runPc = "wait"
    /\ \E i, j \in 1..Len(events) :
          /\ events[i].stale
          /\ ~events[j].stale
          /\ events[j].start < events[i].start

----------------------------------------------------------------------------
\* a snapshot whose every event is fresh
AllFresh(evs) == \A k \in 1..Len(evs) : ~evs[k].stale

(* C21: when a sync round in which every source succeeded returns the very
   events the snapshot already holds, all of them fresh, applying it leaves
   the published lists as they were, order included, whatever the order in
   which the fetch tasks completed and also for events with equal start. *)
C21_UnchangedUpstreamSameView ==
    [][(/\ Applies
        /\ ret.err = NoErr
        /\ ret.failedSources = <<>>
        /\ AllFresh(events)
        /\ SameBag(events, ret.events))
       => PublishedEvents(events', hiddenEntries')
            = PublishedEvents(events, hiddenEntries)]_vars

(* C22: no two events of the visible list that is published share a uid. *)
C22_UidUniqueInView ==
    LET view == PublishedEvents(events, hiddenEntries).events
    IN \A i, j \in 1..Len(view) : view[i].uid = view[j].uid => i = j

----------------------------------------------------------------------------
\* the lists the UI holds once it has been given any
View == PublishedEvents(events, hiddenEntries)

\* the status the user sees
Status ==
    IF ui.loading THEN "loading"
    ELSE IF ui.tray = "normal" THEN "fresh" ELSE ui.tray

StaleInView ==
    {<<View.events[k].source, View.events[k].uid>> :
        k \in {x \in 1..Len(View.events) : View.events[x].stale}}
    \cup {<<View.hidden[k].source, View.hidden[k].uid>> :
        k \in {x \in 1..Len(View.hidden) : View.hidden[x].stale}}

(* C23: every event that a published view shows as stale, in the visible or
   in the hidden list, was shown in an earlier published view with the same
   source and uid and stale = false. *)
C23_StaleWasShownFresh ==
    ~ui.loading => StaleInView \subseteq shown

(* C28: until the first sync round has completed the UI stays in its loading
   state and the tray and the popup have been given no status. *)
C28_LoadingUntilFirstSync ==
    lastSync = NoTime => ui = [loading |-> TRUE, stale |-> FALSE, tray |-> "normal"]

\* the status the derivation of the claim gives for the state
DerivedStatus(evs, hidden, ls, err, t) ==
    IF err # NoErr \/ t - ls > 2 * Interval
    THEN "stale"
    ELSE IF \E k \in 1..Len(visibleEvents(evs, hidden)) :
               LET e == visibleEvents(evs, hidden)[k]
               IN ~e.allDay /\ 0 < e.start - t /\ e.start - t <= ImminentWithin
         THEN "imminent"
         ELSE "fresh"

(* C29: every publish after the first sync shows stale iff the last sync
   failed or is older than twice the interval, otherwise imminent iff a
   visible event that is not all-day starts within the next 15 minutes,
   otherwise fresh. *)
C29_StatusDerivation ==
    [][(now' = now /\ lastSync' # NoTime)
       => Status' = DerivedStatus(events', hiddenEntries', lastSync', lastSyncErr', now')]_vars

----------------------------------------------------------------------------
\* the components of the feed that was fetched, by position
Comps == 1..Len(icsIn.feed)

Recurring(k) == icsIn.feed[k].startBy # "none" /\ icsIn.feed[k].rrule # NoRule

\* hours between the start and the end the component states, one if no DTEND
StatedDuration(k) ==
    IF icsIn.feed[k].dtend = NoTime THEN 1 ELSE icsIn.feed[k].dtend - icsIn.feed[k].dtstart

(* C24: every event an ICS fetch returns, and so every event of a published
   view, has end > start, and an all-day event has its start and its end at
   local midnight. *)
C24_EndAfterStart ==
    \A k \in 1..Len(icsOut.events) :
        LET e == icsOut.events[k]
        IN /\ e.end > e.start
           /\ e.allDay => (e.start % 24 = 0 /\ e.end % 24 = 0)

(* C25: an event whose DTSTART was not parsed as a date is marked all-day
   exactly when its start and its end are both at local midnight and the end
   is strictly after the start; so never when end <= start. *)
C25_EffectivelyAllDay ==
    \A k \in Comps :
        icsIn.feed[k].startBy \in {"DateTime", "parseDateTime"} =>
            \A j \in 1..Len(icsOut.parsed[k]) :
                LET e == icsOut.parsed[k][j]
                IN e.allDay <=> (e.start % 24 = 0 /\ e.end % 24 = 0 /\ e.end > e.start)

\* a component with datetimes from one midnight to a later one was parsed
\* and its event is all-day
C25_Witness ==
    \E k \in Comps :
        /\ icsIn.feed[k].startBy = "DateTime"
        /\ icsIn.feed[k].dtend > icsIn.feed[k].dtstart
        /\ \E j \in 1..Len(icsOut.parsed[k]) : icsOut.parsed[k][j].allDay

\* the occurrences of the rule of component k inside the closed range
OccurrencesInRange(k) ==
    LET c == icsIn.feed[k]
    IN {t \in {c.dtstart + n * c.rrule.interval : n \in 0..(c.rrule.count - 1)} :
           icsIn.now - StatedDuration(k) <= t /\ t <= icsIn.end}

(* C26: for a component with a recurrence rule parseEvent yields exactly one
   event per occurrence of the rule in [now - duration, end_instant], the
   boundaries included, with start = the occurrence, end = start + duration
   and uid = series uid, "_", start in unix seconds; the uids of distinct
   occurrences differ. *)
C26_OneEventPerOccurrence ==
    \A k \in Comps :
        Recurring(k) =>
            LET evs == icsOut.parsed[k]
            IN /\ Len(evs) = Cardinality(OccurrencesInRange(k))
               /\ \A t \in OccurrencesInRange(k) :
                     \E j \in 1..Len(evs) :
                        /\ evs[j].start = t
                        /\ evs[j].end = t + StatedDuration(k)
                        /\ evs[j].uid = icsIn.feed[k].uid \o "_" \o ToString(t * 3600)
               /\ \A i, j \in 1..Len(evs) : evs[i].uid = evs[j].uid => i = j

\* the daily one-hour series from 10:00 of day 0, fetched before its first
\* occurrence up to 00:00 of day 3, has given three events
C26_Witness ==
    \E k \in Comps :
        /\ Recurring(k)
        /\ icsIn.feed[k].dtstart = 10
        /\ icsIn.feed[k].dtend = 11
        /\ icsIn.now = 0
        /\ icsIn.end = 72
        /\ Len(icsOut.parsed[k]) = 3

(* C27: every event an ICS fetch returns has end > now and start <
   end_instant, and the returned list is what parseEvent gave, expansion
   included, without the events that fail this test. *)
C27_DiscardOutOfRange ==
    /\ \A k \in 1..Len(icsOut.events) :
          icsOut.events[k].end > icsIn.now /\ icsOut.events[k].start < icsIn.end
    /\ icsOut.events =
          SelectSeq(Flatten(icsOut.parsed),
                    LAMBDA e : ~(e.end <= icsIn.now \/ e.start >= icsIn.end))

\* the expansion gave an occurrence that starts exactly at end_instant, and
\* the fetch did not return it
C27_Witness ==
    \E k \in Comps :
        /\ Recurring(k)
        /\ \E j \in 1..Len(icsOut.parsed[k]) :
              /\ icsOut.parsed[k][j].start = icsIn.end
              /\ icsOut.parsed[k][j].end > icsIn.now
              /\ \A i \in 1..Len(icsOut.events) :
                    icsOut.events[i].uid # icsOut.parsed[k][j].uid

----------------------------------------------------------------------------
(* C30: an event is ongoing at an instant iff start <= instant < end: at
   start = instant it is ongoing and not upcoming, at end = instant it is not
   ongoing, and it is never both ongoing and upcoming; the menu marks an
   ongoing event with NOW. *)
C30_OngoingFromStart ==
    line.at >= 0 =>
        /\ line.ongoing <=> (line.event.start <= line.at /\ line.at < line.event.end)
        /\ line.event.start = line.at => (line.ongoing /\ ~line.upcoming)
        /\ line.event.end = line.at => ~line.ongoing
        /\ ~(line.ongoing /\ line.upcoming)
        /\ (line.timeStr = "NOW") <=> line.ongoing

----------------------------------------------------------------------------
\* a field holds a link of a service
HasService(text) == \E k \in 1..Len(text) : IsService(text[k])

(* C31: DetectFromEvent returns url if url matches a service pattern;
   otherwise the service match of location, else that of description; and
   only if neither field holds a service match the first URL of location,
   else of description. *)
C31_ServiceBeforeGeneric ==
    linkIn.called =>
        linkOut =
            IF linkIn.url # NoLink /\ IsService(linkIn.url) THEN linkIn.url
            ELSE IF HasService(linkIn.location) THEN servicePass(linkIn.location, 1)
            ELSE IF HasService(linkIn.description) THEN servicePass(linkIn.description, 1)
            ELSE IF FindString(linkIn.location, "http") # NoLink
                 THEN FindString(linkIn.location, "http")
                 ELSE FindString(linkIn.description, "http")

----------------------------------------------------------------------------
\* s is a count: digits only, at least one
RECURSIVE AllDigits(_)
AllDigits(s) == s = <<>> \/ (IsDigit(Head(s)) /\ AllDigits(Tail(s)))

IsCount(s) == s # <<>> /\ AllDigits(s)

\* s is a count before the suffix p
IsSuffixed(s, p) == HasSuffix(s, p) /\ IsCount(TrimSuffix(s, p))

\* s writes a value below zero, with a suffix or in the standard syntax
IsNegative(s) ==
    /\ s # <<>>
    /\ Head(s) = "-"
    /\ \/ \E p \in {<<"d">>, <<"w">>} : IsSuffixed(Tail(s), p) /\ leadingInt(Tail(s), 0).v > 0
       \/ ~ParseDuration(s).err /\ ParseDuration(s).d < 0

(* C32: parseDuration returns 0 for the empty string, n * 24h for "nd" and
   n * 7 * 24h for "nw" with a count n >= 0, an error for every negative
   value, with a suffix ("-5d") or in the standard syntax ("-5m"), and the
   standard duration value otherwise. *)
C32_ParseDuration ==
    durIn.called =>
        LET s == TrimSpace(durIn.s)
        IN durOut =
            IF s = <<>> THEN DurOK(0)
            ELSE IF IsSuffixed(s, <<"d">>) THEN DurOK(leadingInt(s, 0).v * 24 * DurHour)
            ELSE IF IsSuffixed(s, <<"w">>) THEN DurOK(leadingInt(s, 0).v * 7 * 24 * DurHour)
            ELSE IF IsNegative(s) THEN DurErr
            ELSE ParseDuration(s)

----------------------------------------------------------------------------
\* one of the inline connection fields of the validated source is set
AnyInline ==
    \/ srcIn.type # "" \/ srcIn.url # "" \/ srcIn.urlCmd # ""
    \/ srcIn.username # "" \/ srcIn.usernameCmd # ""
    \/ srcIn.password # "" \/ srcIn.passwordCmd # ""
    \/ srcIn.calendars # <<>>

(* C33: Validate returns an error iff the name is empty, or config_cmd is
   set together with any inline connection field, or config_cmd is unset and
   type is empty. *)
C33_ValidateIff ==
    srcIn.called =>
        (srcOut # NoErr <=>
            \/ srcIn.name = ""
            \/ srcIn.configCmd # "" /\ AnyInline
            \/ srcIn.configCmd = "" /\ srcIn.type = "")

\* a named source with config_cmd and nothing inline but calendars is refused
C33_Witness ==
    /\ srcIn.called
    /\ srcIn.name # ""
    /\ srcIn.configCmd # ""
    /\ isEmptyButCalendars(srcIn)
    /\ srcIn.calendars # <<>>
    /\ srcOut # NoErr

----------------------------------------------------------------------------
\* the calls of Send made for the uid so far
SendsOf(log, uid) == {k \in 1..Len(log) : log[k].uid = uid}

(* C36: a notification tick works on the visible events only: for a uid that
   is in the hidden registry at the tick, checkNotifications makes no call of
   Send and records no ticket, whatever the threshold. *)
C36_HiddenNotNotified ==
    [][\A uid \in UIDs :
          alreadyHidden(hiddenEntries, uid) =>
              /\ SendsOf(sentLog', uid) = SendsOf(sentLog, uid)
              /\ \A b \in 1..Len(Before) :
                    Key(uid, Before[b]) \in DOMAIN notifiedEvents'
                        => Key(uid, Before[b]) \in DOMAIN notifiedEvents]_vars

\* a tick at this instant notified of one event and passed over a hidden one
\* that is in the window of a threshold
C36_Witness ==
    \E k \in 1..Len(events), b \in 1..Len(Before) :
        /\ alreadyHidden(hiddenEntries, events[k].uid)
        /\ considered(events[k], now)
        /\ inWindow(events[k].start - now, Before[b])
        /\ Key(events[k].uid, Before[b]) \notin DOMAIN notifiedEvents
        /\ \E j \in 1..Len(sentLog) :
              sentLog[j].at = now /\ sentLog[j].uid # events[k].uid

----------------------------------------------------------------------------
\* the events of the snapshot that carry a tag of source i
OfSource(evs, i) == SelectSeq(evs, LAMBDA e : e.source \in SourceTags(i))

\* the snapshot holds, for source i, what its fetch of this round returned
\* after filtering, and none of it is stale
HoldsFetched(evs, i) == SameBag(OfSource(evs, i), markFresh(Filtered(i)))

(* C40 as stated: whenever the fetch of a source succeeds in a round, the
   snapshot holds for that source, once the result of the round is applied,
   exactly the filtered events the fetch returned, none of them stale,
   whatever the outcomes of the other sources. *)
C40_SucceededSourceReplaced ==
    [][Applies => \A i \in SourceIds : Succeeded(i) => HoldsFetched(events', i)]_vars

(* C40 as amended: the same, for every round that Sync does not return as an
   error; a round in which the sources that succeeded leave no event and
   another source failed is returned as an error and leaves the snapshot as
   it was, the events of the sources that succeeded included. *)
C40_SucceededSourceReplacedUnlessError ==
    [][Applies =>
         /\ ret.err = NoErr =>
                \A i \in SourceIds : Succeeded(i) => HoldsFetched(events', i)
         /\ ret.err # NoErr =>
                /\ \A i \in SourceIds : Succeeded(i) => Len(Filtered(i)) = 0
                /\ events' = events]_vars

\* a round in which one source failed and another succeeded with events has
\* been applied
C40_Witness ==
    /\ runPc = "wait"
    /\ lastSyncErr = NoErr
    /\ \E i, j \in SourceIds :
          /\ Failed(j)
          /\ Succeeded(i)
          /\ Len(Filtered(i)) > 0
          /\ HoldsFetched(events, i)

----------------------------------------------------------------------------
\* the view builder as the claim has it: what is dropped, and what the
\* all-day section holds
ViewDropped(e) ==
    e.end + ViewGrace < viewIn.at \/ e.start > viewIn.at + ViewRange

ViewAllDay(e) ==
    /\ e.allDay \/ e.end - e.start >= ICSDay
    /\ DayOf(e.start) <= DayOf(viewIn.at)
    /\ DayOf(viewIn.at) < (IF AtMidnight(e.end) THEN e.end ELSE DayOf(e.end) + ICSDay)

(* C35: the view builder drops the events with end + event_end_grace < now
   or start > now + time_range, and every other event is in exactly one
   section: the all-day section iff it is all-day or lasts 24 hours or more,
   and spans today; the timed section otherwise. *)
C35_ViewPartition ==
    viewIn # NoViewIn =>
        /\ SameBag(viewOut.allDay,
                   SelectSeq(viewIn.events, LAMBDA e : ~ViewDropped(e) /\ ViewAllDay(e)))
        /\ SameBag(viewOut.timed,
                   SelectSeq(viewIn.events, LAMBDA e : ~ViewDropped(e) /\ ~ViewAllDay(e)))

----------------------------------------------------------------------------
\* the calls of Send made for the pair (uid, before) so far, by their result
SendsFor(log, uid, before, result) ==
    {k \in 1..Len(log) :
        log[k].uid = uid /\ log[k].before = before /\ log[k].result = result}

(* C38: for every event and every configured threshold T, a tick that finds
   the event visible inside the window of T leaves exactly one notification
   for (uid, T) delivered, provided the notification service did not refuse
   it; this for every pair of thresholds, also for two thresholds whose
   notifications fall within one minute of each other. *)
C38_DeliveredOncePerThreshold ==
    [][notifiedEvents' # notifiedEvents =>
         \A k \in 1..Len(visibleEvents(events, hiddenEntries)), b \in 1..Len(Before) :
             LET e == visibleEvents(events, hiddenEntries)[k]
             IN (/\ considered(e, now)
                 /\ inWindow(e.start - now, Before[b])
                 /\ SendsFor(sentLog', e.uid, Before[b], "error") = {})
                => Cardinality(SendsFor(sentLog', e.uid, Before[b], "sent")) = 1]_vars

----------------------------------------------------------------------------
\* the notification went out with the action and its id is kept with a URL
HasJoin == "join" \in notif.actions /\ notif.id \in DOMAIN notificationIDs

\* the last "join" opened the URL kept for its id, or nothing
OpensRecorded ==
    opened # NoJoin =>
        opened.url = IF opened.id \in DOMAIN notificationIDs
                     THEN notificationIDs[opened.id]
                     ELSE NoLink

(* C37 as stated: a notification that was sent carries the "join" action and
   has its id recorded against a URL iff its event carries the URL of a
   meeting service; a "join" that comes in for an id opens the URL recorded
   for the id, and nothing when none is recorded. *)
C37_JoinIffServiceURL ==
    /\ notif.result = "sent" =>
          (HasJoin <=> \/ IsService(notif.url)
                       \/ HasService(notif.location)
                       \/ HasService(notif.description))
    /\ OpensRecorded

(* C37 as amended: the same with "iff DetectFromEvent finds a link": the url
   property is the URL of a meeting service, or location or description
   holds a URL of any kind; the URL recorded is that link. *)
C37_JoinIffLinkDetected ==
    /\ notif.result = "sent" =>
          /\ HasJoin <=> \/ IsService(notif.url)
                         \/ \E k \in 1..Len(notif.location) : IsURL(notif.location[k])
                         \/ \E k \in 1..Len(notif.description) : IsURL(notif.description[k])
          /\ HasJoin => notificationIDs[notif.id].svc # "word"
    /\ OpensRecorded

\* a notification with the action went out, and its "join" came in and opened
\* the link recorded for it
C37_Witness ==
    /\ notif.result = "sent"
    /\ HasJoin
    /\ opened.id = notif.id
    /\ opened.url = notificationIDs[notif.id]
    /\ opened.url # NoLink

----------------------------------------------------------------------------
(* C34: every read or write of events, hiddenEntries, lastSync, lastSyncErr,
   notifiedEvents and notificationIDs happens while App.mu is held: at least
   the read lock for a read, the write lock for a write, however the sync
   goroutine, the notification goroutine and the callbacks interleave.
   checkNotifications releases the read lock after it has copied the visible
   events and then looks up, writes and cleans up a.notifiedEvents. *)
C34_AccessUnderMutex ==
    /\ access.reads # {} => access.held \in {"read", "write"}
    /\ access.writes # {} => access.held = "write"

\* C34 as amended: every read or write of events, hiddenEntries, lastSync,
\* lastSyncErr and notificationIDs happens while App.mu is held, the write
\* lock for a write; notifiedEvents is read and written without the lock, by
\* the notification goroutine alone
C34_AccessUnderMutexOrConfined ==
    /\ access.reads \ {"notifiedEvents"} # {} => access.held \in {"read", "write"}
    /\ access.writes \ {"notifiedEvents"} # {} => access.held = "write"
    /\ "notifiedEvents" \in access.reads \cup access.writes => access.by = "notify"

\* a ticket is written with no lock held while another goroutine reads under
\* the lock
C34_Witness ==
    /\ "notifiedEvents" \in access.writes
    /\ access.held = "none"
    /\ mu.readers # {}

----------------------------------------------------------------------------
(* C39: where scheduleUIUpdate calls updateUI on the calling goroutine, once
   no updateUI is in flight the events and hidden events last handed to the
   UI are the visible and the hidden events of the current state: an older
   copy never overwrites a newer one. updateUI hands its copy to the UI
   after it has released the read lock, so the copy of a tick can arrive
   after the one of a later hide. *)
C39_LatestSnapshotShown ==
    (\A g \in Goroutines : At(g) = "idle")
        => menu = PublishedEvents(events, hiddenEntries)

====
